---------------------------- MODULE Spec2Model ----------------------------
(***************************************************************************)
(* KeyValueAVLTree<Key, Value> (src/KeyValueAVLTree.hpp) as a state        *)
(* machine.  A node pointer is modelled by the value of the subtree it     *)
(* owns: nullptr is the empty tuple, a live node is a record with the      *)
(* fields of KeyValueAVLNode.  Every node is owned by exactly one link,    *)
(* so a write through a pointer is the replacement of that subtree.        *)
(***************************************************************************)
EXTENDS Integers, Sequences, FiniteSets, TLC

(* Bounds of the model. *)
MaxKey == 5
MaxOps == 7
MaxCells == 4
MaxPush == 6
MaxBooks == 3
MaxNodes == 7
MaxLen == 3

Keys == 1..MaxKey

(* The value type is opaque to the tree: two distinguishable values. *)
Values == {"V1", "V2"}
NoVal == "none"

VARIABLES
    root,   \* KeyValueAVLTree::root_
    op,     \* the public call that produced this state
    ret,    \* what that call returned, or the exception it threw
    heap,   \* the nodes that call allocated (new) and destroyed (delete)
    ref,    \* reference map: key -> value, NoVal when absent
    hist,   \* call history: keys ever inserted, successful inserts and erases,
            \* largest size reached
    script, \* a fixed sequence of calls being replayed, and the position in it
    mem,    \* the nodes as cells of memory, and root_ as a pointer to one
    run,    \* the writes of the mutating call in progress, and how many are done
    reader, \* the position of each read-only call in progress
    bal,    \* a node handed to balance, and the node it returned
    arr,    \* a DynamicArray<T>: data_, size_, capacity_
    pushed, \* the values passed to that array's push_back so far
    file,   \* the lines of libro_superfinal.csv, each split at its commas
    libros, \* main: DynamicArray<Libro> libros_final
    avl,    \* main: KeyValueAVLTree<string, int> avl (title -> index)
    tree,   \* main: KeyValueAVLTree<string, unordered_map<int, Libro>> tree
    grafo,  \* main: Graph grafo (adjacencyList)
    main,   \* main: the statement reached and its loop counters
    shown   \* what the last statement of main wrote to the terminal

(* The tree as values, with the record of its calls. *)
treeVars == <<root, op, ret, heap, ref, hist, script>>

(* The tree as memory under single writes. *)
stepVars == <<mem, run, reader>>

arrVars == <<arr, pushed>>

mainVars == <<file, libros, avl, tree, grafo, main, shown>>

(* The objects a specification of the tree leaves as constructed. *)
others == <<stepVars, bal, arrVars, mainVars>>

vars == <<treeVars, stepVars, bal, arrVars, mainVars>>

Max(a, b) == IF a > b THEN a ELSE b

(* ------------------------------------------------------------------ *)
(* Nodes                                                                *)
(* ------------------------------------------------------------------ *)

nullptr == <<>>

(* KeyValueAVLNode(const Key&, const Value&) *)
KeyValueAVLNode(k, v) ==
    [key |-> k, value |-> v, height |-> 1, left |-> nullptr, right |-> nullptr]

(* int height(node): the cached height, 0 for an absent node *)
height(node) == IF node # nullptr THEN node.height ELSE 0

(* void update_height(node) *)
update_height(node) ==
    [node EXCEPT !.height = 1 + Max(height(node.left), height(node.right))]

(* int calculate_balance_factor(node) *)
calculate_balance_factor(node) ==
    IF node # nullptr THEN height(node.right) - height(node.left) ELSE 0

(* ------------------------------------------------------------------ *)
(* Rotations                                                            *)
(* ------------------------------------------------------------------ *)

(* rotate_left with the wrong grandchild handed down:                    *)
(* node->right = newRoot->right                                          *)
rotate_left_wrong_child(node) ==
    LET newRoot == node.right
        lowered == update_height([node EXCEPT !.right = newRoot.right])
    IN  update_height([newRoot EXCEPT !.left = lowered])

(* rotate_left(node): newRoot = node->right; node->right = newRoot->left;  *)
(* newRoot->left = node; update_height(node); update_height(newRoot)       *)
rotate_left(node) ==
    LET newRoot == node.right
        lowered == update_height([node EXCEPT !.right = newRoot.left])
    IN  update_height([newRoot EXCEPT !.left = lowered])

(* rotate_right with the heights updated in the wrong order:             *)
(* update_height(newRoot) before update_height(node)                     *)
rotate_right_stale_height(node) ==
    LET newRoot == node.left
        lowered == [node EXCEPT !.left = newRoot.right]
        raised  == update_height([newRoot EXCEPT !.right = lowered])
    IN  [raised EXCEPT !.right = update_height(lowered)]

(* rotate_right with the wrong grandchild handed down:                   *)
(* node->left = newRoot->left                                            *)
rotate_right_wrong_child(node) ==
    LET newRoot == node.left
        lowered == update_height([node EXCEPT !.left = newRoot.left])
    IN  update_height([newRoot EXCEPT !.right = lowered])

(* rotate_right(node): the mirror image *)
rotate_right(node) ==
    LET newRoot == node.left
        lowered == update_height([node EXCEPT !.left = newRoot.right])
    IN  update_height([newRoot EXCEPT !.right = lowered])

(* rotate_left_right(node) *)
rotate_left_right(node) ==
    rotate_right([node EXCEPT !.left = rotate_left(node.left)])

(* rotate_right_left(node) *)
rotate_right_left(node) ==
    rotate_left([node EXCEPT !.right = rotate_right(node.right)])

(* balance without the mirrored (bf == -2) branch *)
balance_right_only(node) ==
    LET bf == calculate_balance_factor(node)
    IN  IF bf = 2
        THEN IF calculate_balance_factor(node.right) >= 0
             THEN rotate_left(node)
             ELSE rotate_right_left(node)
        ELSE node

(* balance that never chooses a double rotation *)
balance_single_only(node) ==
    LET bf == calculate_balance_factor(node)
    IN  IF bf = 2 THEN rotate_left(node)
        ELSE IF bf = -2 THEN rotate_right(node)
        ELSE node

(* balance without the bf == 2 branch *)
balance_left_only(node) ==
    LET bf == calculate_balance_factor(node)
    IN  IF bf = -2
        THEN IF calculate_balance_factor(node.left) <= 0
             THEN rotate_right(node)
             ELSE rotate_left_right(node)
        ELSE node

(* balance that takes the double rotation when the child's bf is 0 *)
balance_strict_tie(node) ==
    LET bf == calculate_balance_factor(node)
    IN  IF bf = 2
        THEN IF calculate_balance_factor(node.right) > 0
             THEN rotate_left(node)
             ELSE rotate_right_left(node)
        ELSE IF bf = -2
        THEN IF calculate_balance_factor(node.left) < 0
             THEN rotate_right(node)
             ELSE rotate_left_right(node)
        ELSE node

(* balance(node) *)
balance(node) ==
    LET bf == calculate_balance_factor(node)
    IN  IF bf = 2
        THEN IF calculate_balance_factor(node.right) >= 0
             THEN rotate_left(node)
             ELSE rotate_right_left(node)
        ELSE IF bf = -2
        THEN IF calculate_balance_factor(node.left) <= 0
             THEN rotate_right(node)
             ELSE rotate_left_right(node)
        ELSE node

(* ------------------------------------------------------------------ *)
(* Private recursive routines                                           *)
(* ------------------------------------------------------------------ *)

RECURSIVE size(_)
size(node) ==
    IF node = nullptr THEN 0 ELSE 1 + size(node.left) + size(node.right)

(* find_max that descends to the left (the minimum) *)
RECURSIVE find_max_leftmost(_)
find_max_leftmost(node) ==
    IF node.left # nullptr THEN find_max_leftmost(node.left) ELSE node

(* throw std::out_of_range("The tree is empty.") *)
out_of_range == [what |-> "The tree is empty."]

(* find_min without the test for an absent node *)
RECURSIVE find_min_unguarded(_)
find_min_unguarded(node) ==
    IF node # nullptr /\ node.left # nullptr
    THEN find_min_unguarded(node.left)
    ELSE node

(* find_min with an if where the while belongs: one step to the left *)
find_min_one_step(node) ==
    IF node = nullptr THEN out_of_range
    ELSE IF node.left # nullptr THEN node.left
    ELSE node

(* find_min(node): throws on an absent node, else leftmost descent *)
RECURSIVE find_min(_)
find_min(node) ==
    IF node = nullptr THEN out_of_range
    ELSE IF node.left # nullptr THEN find_min(node.left)
    ELSE node

(* find_max(node): throws on an absent node, else rightmost descent *)
RECURSIVE find_max(_)
find_max(node) ==
    IF node = nullptr THEN out_of_range
    ELSE IF node.right # nullptr THEN find_max(node.right)
    ELSE node

(* find with the two descents swapped *)
RECURSIVE find_swapped(_, _)
find_swapped(node, key) ==
    IF node = nullptr \/ key = node.key THEN node
    ELSE IF key < node.key THEN find_swapped(node.right, key)
    ELSE find_swapped(node.left, key)

RECURSIVE find(_, _)
find(node, key) ==
    IF node = nullptr \/ key = node.key THEN node
    ELSE IF key < node.key THEN find(node.left, key)
    ELSE find(node.right, key)

(* insert that overwrites the value of a key already present *)
RECURSIVE insert_overwrite(_, _, _)
insert_overwrite(node, key, value) ==
    IF node = nullptr
    THEN balance(update_height(KeyValueAVLNode(key, value)))
    ELSE IF key < node.key
    THEN balance(update_height(
             [node EXCEPT !.left = insert_overwrite(node.left, key, value)]))
    ELSE IF key > node.key
    THEN balance(update_height(
             [node EXCEPT !.right = insert_overwrite(node.right, key, value)]))
    ELSE [node EXCEPT !.value = value]

RECURSIVE insert(_, _, _)
insert(node, key, value) ==
    IF node = nullptr
    THEN balance(update_height(KeyValueAVLNode(key, value)))
    ELSE IF key < node.key
    THEN balance(update_height(
             [node EXCEPT !.left = insert(node.left, key, value)]))
    ELSE IF key > node.key
    THEN balance(update_height(
             [node EXCEPT !.right = insert(node.right, key, value)]))
    ELSE node

(* erase whose splice keeps the left child only:                          *)
(* temp = node->left instead of node->left ? node->left : node->right    *)
RECURSIVE erase_drops_right_child(_, _)
erase_drops_right_child(node, key) ==
    IF node = nullptr THEN node
    ELSE IF key < node.key
    THEN balance(update_height(
             [node EXCEPT !.left = erase_drops_right_child(node.left, key)]))
    ELSE IF key > node.key
    THEN balance(update_height(
             [node EXCEPT !.right = erase_drops_right_child(node.right, key)]))
    ELSE IF node.left = nullptr \/ node.right = nullptr
    THEN node.left
    ELSE LET temp == find_max(node.left)
         IN  balance(update_height(
                 [node EXCEPT !.key = temp.key,
                              !.value = temp.value,
                              !.left = erase_drops_right_child(node.left, temp.key)]))

(* erase whose two-children case copies the key but not the value *)
RECURSIVE erase_keeps_value(_, _)
erase_keeps_value(node, key) ==
    IF node = nullptr THEN node
    ELSE IF key < node.key
    THEN balance(update_height(
             [node EXCEPT !.left = erase_keeps_value(node.left, key)]))
    ELSE IF key > node.key
    THEN balance(update_height(
             [node EXCEPT !.right = erase_keeps_value(node.right, key)]))
    ELSE IF node.left = nullptr \/ node.right = nullptr
    THEN (IF node.left # nullptr THEN node.left ELSE node.right)
    ELSE LET temp == find_max(node.left)
         IN  balance(update_height(
                 [node EXCEPT !.key = temp.key,
                              !.left = erase_keeps_value(node.left, temp.key)]))

(* erase without the key > node->key test: whatever is not smaller is    *)
(* taken for the key                                                     *)
RECURSIVE erase_no_greater_test(_, _)
erase_no_greater_test(node, key) ==
    IF node = nullptr THEN node
    ELSE IF key < node.key
    THEN balance(update_height(
             [node EXCEPT !.left = erase_no_greater_test(node.left, key)]))
    ELSE IF node.left = nullptr \/ node.right = nullptr
    THEN (IF node.left # nullptr THEN node.left ELSE node.right)
    ELSE LET temp == find_max(node.left)
         IN  balance(update_height(
                 [node EXCEPT !.key = temp.key,
                              !.value = temp.value,
                              !.left = erase_no_greater_test(node.left, temp.key)]))

(* erase whose two-children case copies the predecessor and leaves the   *)
(* predecessor's node in the left subtree                                *)
RECURSIVE erase_keeps_predecessor(_, _)
erase_keeps_predecessor(node, key) ==
    IF node = nullptr THEN node
    ELSE IF key < node.key
    THEN balance(update_height(
             [node EXCEPT !.left = erase_keeps_predecessor(node.left, key)]))
    ELSE IF key > node.key
    THEN balance(update_height(
             [node EXCEPT !.right = erase_keeps_predecessor(node.right, key)]))
    ELSE IF node.left = nullptr \/ node.right = nullptr
    THEN (IF node.left # nullptr THEN node.left ELSE node.right)
    ELSE LET temp == find_max(node.left)
         IN  balance(update_height(
                 [node EXCEPT !.key = temp.key, !.value = temp.value]))

RECURSIVE erase(_, _)
erase(node, key) ==
    IF node = nullptr THEN node
    ELSE IF key < node.key
    THEN balance(update_height([node EXCEPT !.left = erase(node.left, key)]))
    ELSE IF key > node.key
    THEN balance(update_height([node EXCEPT !.right = erase(node.right, key)]))
    ELSE IF node.left = nullptr \/ node.right = nullptr
    THEN (IF node.left # nullptr THEN node.left ELSE node.right)
    ELSE LET temp == find_max(node.left)
         IN  balance(update_height(
                 [node EXCEPT !.key = temp.key,
                              !.value = temp.value,
                              !.left = erase(node.left, temp.key)]))

(* inorder_traversal that emits the node before its left subtree *)
RECURSIVE inorder_traversal_node_first(_)
inorder_traversal_node_first(node) ==
    IF node = nullptr THEN <<>>
    ELSE <<(<<node.key, node.value>>)>>
         \o inorder_traversal_node_first(node.left)
         \o inorder_traversal_node_first(node.right)

(* inorder_traversal(node, traversal): the sequence of (key, value) pairs *)
RECURSIVE inorder_traversal(_)
inorder_traversal(node) ==
    IF node = nullptr THEN <<>>
    ELSE inorder_traversal(node.left)
         \o <<(<<node.key, node.value>>)>>
         \o inorder_traversal(node.right)

(* preorder_traversal that descends to the right before the left *)
RECURSIVE preorder_traversal_right_first(_)
preorder_traversal_right_first(node) ==
    IF node = nullptr THEN <<>>
    ELSE <<(<<node.key, node.value>>)>>
         \o preorder_traversal_right_first(node.right)
         \o preorder_traversal_right_first(node.left)

(* preorder_traversal(node, traversal) *)
RECURSIVE preorder_traversal(_)
preorder_traversal(node) ==
    IF node = nullptr THEN <<>>
    ELSE <<(<<node.key, node.value>>)>>
         \o preorder_traversal(node.left)
         \o preorder_traversal(node.right)

(* postorder_traversal(node, traversal) *)
RECURSIVE postorder_traversal(_)
postorder_traversal(node) ==
    IF node = nullptr THEN <<>>
    ELSE postorder_traversal(node.left)
         \o postorder_traversal(node.right)
         \o <<(<<node.key, node.value>>)>>

(* clear(node) that never descends to the right *)
RECURSIVE clear_leaks_right(_)
clear_leaks_right(node) ==
    IF node = nullptr THEN <<>>
    ELSE clear_leaks_right(node.left) \o <<node>>

(* clear(node): the nodes in the order they are deleted *)
RECURSIVE clear(_)
clear(node) ==
    IF node = nullptr THEN <<>>
    ELSE clear(node.left) \o clear(node.right) \o <<node>>

(* The nodes insert(node, key, value) allocates: new only at an absent link *)
RECURSIVE insert_created(_, _)
insert_created(node, key) ==
    IF node = nullptr THEN 1
    ELSE IF key < node.key THEN insert_created(node.left, key)
    ELSE IF key > node.key THEN insert_created(node.right, key)
    ELSE 0

(* The nodes erase(node, key) deletes, as they are when deleted *)
RECURSIVE erase_deleted(_, _)
erase_deleted(node, key) ==
    IF node = nullptr THEN <<>>
    ELSE IF key < node.key THEN erase_deleted(node.left, key)
    ELSE IF key > node.key THEN erase_deleted(node.right, key)
    ELSE IF node.left = nullptr \/ node.right = nullptr THEN <<node>>
    ELSE erase_deleted(node.left, find_max(node.left).key)

(* key.compare(other): the standard fixes the sign of the result only.   *)
(* Two implementations: the bare sign, and a signed difference; a third, *)
(* "far", reports the larger magnitude the nearer the keys are.          *)
CompareKinds == {"sign", "difference"}

compare(a, b, kind) ==
    IF kind = "difference" THEN a - b
    ELSE IF kind = "far" /\ a < b THEN (b - a) - (MaxKey + 1)
    ELSE IF kind = "far" /\ a > b THEN (MaxKey + 1) - (a - b)
    ELSE IF a < b THEN -1
    ELSE IF a > b THEN 1
    ELSE 0

abs(x) == IF x < 0 THEN -x ELSE x

(* The loop of findClosest taking a candidate that is no farther, not   *)
(* only one that is closer                                              *)
RECURSIVE findClosestLoop_or_equal(_, _, _, _)
findClosestLoop_or_equal(current, closest, key, kind) ==
    IF current = nullptr THEN closest
    ELSE LET better ==
                 IF closest = nullptr
                      \/ abs(compare(key, current.key, kind))
                           <= abs(compare(key, closest.key, kind))
                 THEN current
                 ELSE closest
         IN  IF key < current.key
             THEN findClosestLoop_or_equal(current.left, better, key, kind)
             ELSE IF key > current.key
             THEN findClosestLoop_or_equal(current.right, better, key, kind)
             ELSE better

(* The loop of findClosest keeping its first candidate *)
RECURSIVE findClosestLoop_first_candidate(_, _, _, _)
findClosestLoop_first_candidate(current, closest, key, kind) ==
    IF current = nullptr THEN closest
    ELSE LET better == IF closest = nullptr THEN current ELSE closest
         IN  IF key < current.key
             THEN findClosestLoop_first_candidate(current.left, better, key, kind)
             ELSE IF key > current.key
             THEN findClosestLoop_first_candidate(current.right, better, key, kind)
             ELSE better

(* The loop of findClosest, from (current, closest) *)
RECURSIVE findClosestLoop(_, _, _, _)
findClosestLoop(current, closest, key, kind) ==
    IF current = nullptr THEN closest
    ELSE LET better ==
                 IF closest = nullptr
                      \/ abs(compare(key, current.key, kind))
                           < abs(compare(key, closest.key, kind))
                 THEN current
                 ELSE closest
         IN  IF key < current.key
             THEN findClosestLoop(current.left, better, key, kind)
             ELSE IF key > current.key
             THEN findClosestLoop(current.right, better, key, kind)
             ELSE better

(* findClosest that answers only an exact match *)
findClosest_exact_only(node, key, kind) == find(node, key)

(* findClosest(key) *)
findClosest(node, key, kind) == findClosestLoop(node, nullptr, key, kind)

(* ------------------------------------------------------------------ *)
(* Public operations                                                    *)
(* ------------------------------------------------------------------ *)

(* What a call met in the tree it was made on (recorded for the sake of  *)
(* the properties below, not program state).                            *)
RootKey(node) == IF node = nullptr THEN 0 ELSE node.key

TwoChildren(node, k) ==
    LET n == find(node, k)
    IN  n # nullptr /\ n.left # nullptr /\ n.right # nullptr

(* A call's outcome: a value returned (nullptr for void) or an exception. *)
(* Outcome is for the routines that yield a node or throw.                *)
Returned(x) == [thrown |-> "none", value |-> x]

Thrown(e) == [thrown |-> "std::out_of_range", value |-> e]

Outcome(x) == IF x = out_of_range THEN Thrown(x) ELSE Returned(x)

NoAlloc == [created |-> 0, deleted |-> <<>>]

NoScript == [calls |-> <<>>, pc |-> 1]

(* Pointers into memory: 0 is nullptr, a node is the number of its cell. *)
NodeIds == 1..MaxCells

(* The keys of the calls made on the tree in memory. *)
StepKeys == 1..MaxCells

FreeCell ==
    [key |-> 0, value |-> NoVal, height |-> 0, left |-> 0, right |-> 0,
     live |-> FALSE]

Readers == {"r1", "r2"}

(* What each reading thread calls. *)
ReaderCalls == [r1 |-> "find", r2 |-> "find_max"]

NoRead == [fn |-> "none", key |-> 0, cur |-> 0]

NoRun == [log |-> <<>>, pos |-> 0, name |-> "none", key |-> 0]

(* No node allocated, no call in progress. *)
InitSteps ==
    /\ mem = [cells |-> [n \in NodeIds |-> FreeCell], rootp |-> 0]
    /\ run = NoRun
    /\ reader = [r \in Readers |-> NoRead]

(* DynamicArray() = default: data_{nullptr}, size_{0}, capacity_{0} *)
EmptyArray == [data_ |-> <<>>, size_ |-> 0, capacity_ |-> 0]

InitArray == arr = EmptyArray /\ pushed = <<>>

(* main before its first statement, on an input file with no line *)
InitMain ==
    /\ file = <<>>
    /\ libros = EmptyArray
    /\ avl = nullptr
    /\ tree = nullptr
    /\ grafo = <<>>
    /\ main = [pc |-> "load", i |-> 0, j |-> 0]
    /\ shown = <<>>

InitBalance == bal = [in |-> nullptr, out |-> nullptr]

InitOthers == InitSteps /\ InitBalance /\ InitArray /\ InitMain

InitTree ==
    /\ root = nullptr
    /\ op = [name |-> "new", key |-> 0, value |-> NoVal, hit |-> FALSE,
             two |-> FALSE, rootBefore |-> 0, cmp |-> "none"]
    /\ ret = Returned(nullptr)
    /\ heap = NoAlloc
    /\ hist = [everInserted |-> {}, nIns |-> 0, nEra |-> 0, peak |-> 0]

Init ==
    /\ InitTree
    /\ ref = [k \in Keys |-> NoVal]
    /\ script = NoScript
    /\ InitOthers

(* void insert(const Key&, const Value&): root_ = insert(root_, key, value) *)
InsertCall(k, v) ==
    /\ root' = insert(root, k, v)
    /\ op' = [name |-> "insert", key |-> k, value |-> v, hit |-> ref[k] # NoVal,
              two |-> FALSE, rootBefore |-> RootKey(root), cmp |-> "none"]
    /\ ret' = Returned(nullptr)
    /\ heap' = [created |-> insert_created(root, k), deleted |-> <<>>]
    /\ ref' = IF ref[k] = NoVal THEN [ref EXCEPT ![k] = v] ELSE ref

(* void erase(const Key&): root_ = erase(root_, key) *)
EraseCall(k) ==
    /\ root' = erase(root, k)
    /\ op' = [name |-> "erase", key |-> k, value |-> NoVal, hit |-> ref[k] # NoVal,
              two |-> TwoChildren(root, k), rootBefore |-> RootKey(root),
              cmp |-> "none"]
    /\ ret' = Returned(nullptr)
    /\ heap' = [created |-> 0, deleted |-> erase_deleted(root, k)]
    /\ ref' = [ref EXCEPT ![k] = NoVal]

(* void clear(): clear(root_); root_ = nullptr *)
ClearCall ==
    /\ root' = nullptr
    /\ op' = [name |-> "clear", key |-> 0, value |-> NoVal, hit |-> root # nullptr,
              two |-> FALSE, rootBefore |-> RootKey(root), cmp |-> "none"]
    /\ ret' = Returned(nullptr)
    /\ heap' = [created |-> 0, deleted |-> clear(root)]
    /\ ref' = [k \in DOMAIN ref |-> NoVal]

(* A const member function: the tree is left as it is. *)
QueryCall(name, k, kind, outcome) ==
    /\ op' = [name |-> name, key |-> k, value |-> NoVal,
              hit |-> (k \in DOMAIN ref /\ ref[k] # NoVal),
              two |-> FALSE, rootBefore |-> RootKey(root), cmp |-> kind]
    /\ ret' = outcome
    /\ heap' = NoAlloc
    /\ UNCHANGED <<root, ref>>

(* find_min() const: find_min(root_) *)
FindMinCall == QueryCall("find_min", 0, "none", Outcome(find_min(root)))

(* find_max() const: find_max(root_) *)
FindMaxCall == QueryCall("find_max", 0, "none", Outcome(find_max(root)))

(* find(key) const: find(root_, key) *)
FindCall(k) == QueryCall("find", k, "none", Returned(find(root, k)))

(* findClosest(key) const *)
FindClosestCall(k, kind) ==
    QueryCall("findClosest", k, kind, Returned(findClosest(root, k, kind)))

(* size() const: size(root_) *)
SizeCall == QueryCall("size", 0, "none", Returned(size(root)))

(* preorder_traversal() / inorder_traversal() / postorder_traversal() const *)
PreorderCall ==
    QueryCall("preorder_traversal", 0, "none", Returned(preorder_traversal(root)))

InorderCall ==
    QueryCall("inorder_traversal", 0, "none", Returned(inorder_traversal(root)))

PostorderCall ==
    QueryCall("postorder_traversal", 0, "none", Returned(postorder_traversal(root)))

(* The tree under every sequence of public calls. *)
Insert(k, v) == InsertCall(k, v) /\ UNCHANGED <<hist, script, others>>

Erase(k) == EraseCall(k) /\ UNCHANGED <<hist, script, others>>

Clear == ClearCall /\ UNCHANGED <<hist, script, others>>

FindMin == FindMinCall /\ UNCHANGED <<hist, script, others>>

FindMax == FindMaxCall /\ UNCHANGED <<hist, script, others>>

Find(k) == FindCall(k) /\ UNCHANGED <<hist, script, others>>

FindClosest(k, kind) == FindClosestCall(k, kind) /\ UNCHANGED <<hist, script, others>>

Size == SizeCall /\ UNCHANGED <<hist, script, others>>

Preorder == PreorderCall /\ UNCHANGED <<hist, script, others>>

Inorder == InorderCall /\ UNCHANGED <<hist, script, others>>

Postorder == PostorderCall /\ UNCHANGED <<hist, script, others>>

Next ==
    \/ \E k \in Keys, v \in Values : Insert(k, v)
    \/ \E k \in Keys : Erase(k)
    \/ Clear
    \/ FindMin
    \/ FindMax
    \/ \E k \in Keys : Find(k)
    \/ \E k \in Keys, kind \in CompareKinds : FindClosest(k, kind)
    \/ Size
    \/ Preorder
    \/ Inorder
    \/ Postorder

Spec == Init /\ [][Next]_vars

(* Sequences of at most MaxOps effective insert and erase calls, with the  *)
(* history of the calls recorded.                                          *)
CountedInsert(k, v) ==
    /\ hist.nIns + hist.nEra < MaxOps
    /\ InsertCall(k, v)
    /\ hist' = [hist EXCEPT !.everInserted = @ \cup {k},
                            !.nIns = IF ref[k] = NoVal THEN @ + 1 ELSE @,
                            !.peak = Max(@, size(root'))]
    /\ UNCHANGED <<script, others>>

CountedErase(k) ==
    /\ hist.nIns + hist.nEra < MaxOps
    /\ EraseCall(k)
    /\ hist' = [hist EXCEPT !.nEra = IF ref[k] # NoVal THEN @ + 1 ELSE @]
    /\ UNCHANGED <<script, others>>

NextHist ==
    \/ \E k \in Keys, v \in Values : CountedInsert(k, v)
    \/ \E k \in Keys : CountedErase(k)

SpecHist == Init /\ [][NextHist]_vars

(* ------------------------------------------------------------------ *)
(* Scripted scenarios                                                   *)
(* ------------------------------------------------------------------ *)

(* One-letter string keys, ordered as std::string orders them. *)
Letter == [a |-> 1, b |-> 2, c |-> 3, m |-> 13, z |-> 26]

LetterKeys == {Letter.a, Letter.b, Letter.c, Letter.m, Letter.z}

AscendingKeys == 1..7

ScriptKeys == AscendingKeys \cup LetterKeys

(* The values 1, 2, 3, 4, 5 of the letter scenario, in the order stored. *)
ScenarioValues == <<"1", "2", "3", "4", "5">>

RECURSIVE SortedSeq(_)
SortedSeq(S) ==
    IF S = {} THEN <<>>
    ELSE LET least == CHOOSE x \in S : \A y \in S : x <= y
         IN  <<least>> \o SortedSeq(S \ {least})

InsertOf(k, v) == [name |-> "insert", key |-> k, value |-> v]

EraseOf(k) == [name |-> "erase", key |-> k, value |-> NoVal]

(* Inserts of some of the keys 1..7 in increasing order. *)
AscendingScript(S) ==
    LET keys == SortedSeq(S)
    IN  [i \in 1..Len(keys) |-> InsertOf(keys[i], "V1")]

(* Inserts of the five letters in some order, the i-th with the i-th     *)
(* value, then an erase of one of them.                                  *)
LetterScript(order, erased) ==
    [i \in 1..Len(order) |-> InsertOf(order[i], ScenarioValues[i])]
        \o <<EraseOf(erased)>>

LetterOrders ==
    {o \in [1..Cardinality(LetterKeys) -> LetterKeys] :
        \A i, j \in DOMAIN o : i # j => o[i] # o[j]}

Scripts ==
    {AscendingScript(S) : S \in SUBSET AscendingKeys}
        \cup {LetterScript(o, k) : o \in LetterOrders, k \in LetterKeys}

InitScript ==
    /\ InitTree
    /\ ref = [k \in ScriptKeys |-> NoVal]
    /\ script \in {[calls |-> c, pc |-> 1] : c \in Scripts}
    /\ InitOthers

ReplayInsert ==
    /\ script.pc <= Len(script.calls)
    /\ script.calls[script.pc].name = "insert"
    /\ InsertCall(script.calls[script.pc].key, script.calls[script.pc].value)
    /\ script' = [script EXCEPT !.pc = @ + 1]
    /\ UNCHANGED <<hist, others>>

ReplayErase ==
    /\ script.pc <= Len(script.calls)
    /\ script.calls[script.pc].name = "erase"
    /\ EraseCall(script.calls[script.pc].key)
    /\ script' = [script EXCEPT !.pc = @ + 1]
    /\ UNCHANGED <<hist, others>>

NextScript == ReplayInsert \/ ReplayErase

SpecScript == InitScript /\ [][NextScript]_vars

(* ------------------------------------------------------------------ *)
(* The tree in memory, one write at a time                              *)
(* ------------------------------------------------------------------ *)

(* A mutating call as the sequence of its writes to memory.  m is the    *)
(* memory a routine works on: the cells, root_, and the log of the       *)
(* events so far, each with the memory it leaves.  An event names the    *)
(* routine that made it, the field written, the node, whether a rotation *)
(* is in progress, and (for a call of balance) the balance factor read.  *)
Event(m, cells, rootp, fn, field, node, rot, bf) ==
    [cells |-> cells, rootp |-> rootp,
     log |-> Append(m.log, [cells |-> cells, rootp |-> rootp, fn |-> fn,
                            field |-> field, node |-> node, rot |-> rot,
                            bf |-> bf])]

(* node->field = v *)
Write(m, node, field, v, fn, rot) ==
    Event(m, [m.cells EXCEPT ![node][field] = v], m.rootp, fn, field, node, rot, 0)

(* height(node) read from memory *)
height_at(cells, node) == IF node # 0 THEN cells[node].height ELSE 0

(* calculate_balance_factor(node) read from memory *)
balance_factor_at(cells, node) ==
    height_at(cells, cells[node].right) - height_at(cells, cells[node].left)

(* update_height(node): node->height = 1 + max(height(left), height(right)) *)
update_height_steps(m, node, rot) ==
    Write(m, node, "height",
          1 + Max(height_at(m.cells, m.cells[node].left),
                  height_at(m.cells, m.cells[node].right)),
          "update_height", rot)

(* rotate_left(node) with its two pointer writes in the other order *)
rotate_left_steps_link_first(m, node) ==
    LET newRoot == m.cells[node].right
        m1 == Write(m, newRoot, "left", node, "rotate_left", TRUE)
        m2 == Write(m1, node, "right", m1.cells[newRoot].left, "rotate_left", TRUE)
        m3 == update_height_steps(m2, node, TRUE)
        m4 == update_height_steps(m3, newRoot, TRUE)
    IN  [m |-> m4, p |-> newRoot]

(* rotate_left(node), write by write; yields the memory and the pointer   *)
(* returned                                                               *)
rotate_left_steps(m, node) ==
    LET newRoot == m.cells[node].right
        m1 == Write(m, node, "right", m.cells[newRoot].left, "rotate_left", TRUE)
        m2 == Write(m1, newRoot, "left", node, "rotate_left", TRUE)
        m3 == update_height_steps(m2, node, TRUE)
        m4 == update_height_steps(m3, newRoot, TRUE)
    IN  [m |-> m4, p |-> newRoot]

(* rotate_right(node), write by write *)
rotate_right_steps(m, node) ==
    LET newRoot == m.cells[node].left
        m1 == Write(m, node, "left", m.cells[newRoot].right, "rotate_right", TRUE)
        m2 == Write(m1, newRoot, "right", node, "rotate_right", TRUE)
        m3 == update_height_steps(m2, node, TRUE)
        m4 == update_height_steps(m3, newRoot, TRUE)
    IN  [m |-> m4, p |-> newRoot]

(* rotate_left_right(node): node->left = rotate_left(node->left), then    *)
(* rotate_right(node)                                                     *)
rotate_left_right_steps(m, node) ==
    LET r == rotate_left_steps(m, m.cells[node].left)
        m1 == Write(r.m, node, "left", r.p, "rotate_left_right", TRUE)
    IN  rotate_right_steps(m1, node)

(* rotate_right_left(node): node->right = rotate_right(node->right), then *)
(* rotate_left(node)                                                      *)
rotate_right_left_steps(m, node) ==
    LET r == rotate_right_steps(m, m.cells[node].right)
        m1 == Write(r.m, node, "right", r.p, "rotate_right_left", TRUE)
    IN  rotate_left_steps(m1, node)

(* balance(node) without the bf == -2 branch *)
balance_steps_right_only(m, node) ==
    LET bf == balance_factor_at(m.cells, node)
        m1 == Event(m, m.cells, m.rootp, "balance", "none", node, FALSE, bf)
    IN  IF bf = 2
        THEN IF balance_factor_at(m1.cells, m1.cells[node].right) >= 0
             THEN rotate_left_steps(m1, node)
             ELSE rotate_right_left_steps(m1, node)
        ELSE [m |-> m1, p |-> node]

(* balance(node): the call is an event of its own (it writes nothing),    *)
(* with the balance factor it read                                        *)
balance_steps(m, node) ==
    LET bf == balance_factor_at(m.cells, node)
        m1 == Event(m, m.cells, m.rootp, "balance", "none", node, FALSE, bf)
    IN  IF bf = 2
        THEN IF balance_factor_at(m1.cells, m1.cells[node].right) >= 0
             THEN rotate_left_steps(m1, node)
             ELSE rotate_right_left_steps(m1, node)
        ELSE IF bf = -2
        THEN IF balance_factor_at(m1.cells, m1.cells[node].left) <= 0
             THEN rotate_right_steps(m1, node)
             ELSE rotate_left_right_steps(m1, node)
        ELSE [m |-> m1, p |-> node]

(* update_height(node); return balance(node) *)
update_and_balance_steps(m, node) ==
    balance_steps(update_height_steps(m, node, FALSE), node)

(* new handing out a cell without regard to its being in use *)
NewCell_in_use(cells) == CHOOSE n \in NodeIds : \A o \in NodeIds : n <= o

(* new KeyValueAVLNode(key, value): a cell that is not in use *)
NewCell(cells) == CHOOSE n \in NodeIds :
    /\ ~cells[n].live
    /\ \A o \in NodeIds : ~cells[o].live => n <= o

(* insert(node, key, value), write by write *)
RECURSIVE insert_steps(_, _, _, _)
insert_steps(m, node, key, value) ==
    IF node = 0
    THEN LET n == NewCell(m.cells)
             m1 == Event(m, [m.cells EXCEPT ![n] =
                                [key |-> key, value |-> value, height |-> 1,
                                 left |-> 0, right |-> 0, live |-> TRUE]],
                         m.rootp, "insert", "new", n, FALSE, 0)
         IN  update_and_balance_steps(m1, n)
    ELSE IF key < m.cells[node].key
    THEN LET r == insert_steps(m, m.cells[node].left, key, value)
         IN  update_and_balance_steps(
                 Write(r.m, node, "left", r.p, "insert", FALSE), node)
    ELSE IF key > m.cells[node].key
    THEN LET r == insert_steps(m, m.cells[node].right, key, value)
         IN  update_and_balance_steps(
                 Write(r.m, node, "right", r.p, "insert", FALSE), node)
    ELSE [m |-> m, p |-> node]

(* find_max(node) read from memory, node not nullptr *)
RECURSIVE find_max_at(_, _)
find_max_at(cells, node) ==
    IF cells[node].right # 0 THEN find_max_at(cells, cells[node].right) ELSE node

(* erase(node, key), write by write; delete node is the event that takes  *)
(* the cell out of use                                                    *)
RECURSIVE erase_steps(_, _, _)
erase_steps(m, node, key) ==
    IF node = 0 THEN [m |-> m, p |-> node]
    ELSE IF key < m.cells[node].key
    THEN LET r == erase_steps(m, m.cells[node].left, key)
         IN  update_and_balance_steps(
                 Write(r.m, node, "left", r.p, "erase", FALSE), node)
    ELSE IF key > m.cells[node].key
    THEN LET r == erase_steps(m, m.cells[node].right, key)
         IN  update_and_balance_steps(
                 Write(r.m, node, "right", r.p, "erase", FALSE), node)
    ELSE IF m.cells[node].left = 0 \/ m.cells[node].right = 0
    THEN LET temp == IF m.cells[node].left # 0 THEN m.cells[node].left
                     ELSE m.cells[node].right
         IN  [m |-> Event(m, [m.cells EXCEPT ![node] = FreeCell], m.rootp,
                          "erase", "delete", node, FALSE, 0),
              p |-> temp]
    ELSE LET temp == find_max_at(m.cells, m.cells[node].left)
             m1 == Write(m, node, "key", m.cells[temp].key, "erase", FALSE)
             m2 == Write(m1, node, "value", m1.cells[temp].value, "erase", FALSE)
             r == erase_steps(m2, m2.cells[node].left, m2.cells[temp].key)
         IN  update_and_balance_steps(
                 Write(r.m, node, "left", r.p, "erase", FALSE), node)

(* root_ = insert(root_, key, value): the events of the whole call *)
insert_log(k, v) ==
    LET r == insert_steps([cells |-> mem.cells, rootp |-> mem.rootp, log |-> <<>>],
                          mem.rootp, k, v)
    IN  Event(r.m, r.m.cells, r.p, "insert", "root_", r.p, FALSE, 0).log

(* root_ = erase(root_, key): the events of the whole call *)
erase_log(k) ==
    LET r == erase_steps([cells |-> mem.cells, rootp |-> mem.rootp, log |-> <<>>],
                         mem.rootp, k)
    IN  Event(r.m, r.m.cells, r.p, "erase", "root_", r.p, FALSE, 0).log

(* The tree a pointer leads to, as a value; depth bounds the descent. *)
RECURSIVE TreeAt(_, _, _)
TreeAt(cells, node, depth) ==
    IF node = 0 \/ depth = 0 THEN nullptr
    ELSE [key |-> cells[node].key, value |-> cells[node].value,
          height |-> cells[node].height,
          left |-> TreeAt(cells, cells[node].left, depth - 1),
          right |-> TreeAt(cells, cells[node].right, depth - 1)]

TreeOf(cells, node) == TreeAt(cells, node, MaxCells + 1)

Idle == run.pos = Len(run.log)

NoReader == \A r \in Readers : reader[r] = NoRead

(* A mutating call begins: the host lets it run only while no read-only   *)
(* call is in progress.  The call as a whole is the one of the tree as    *)
(* values; its writes reach memory one by one in WriteStep, and the log    *)
(* is dropped with the last.                                              *)
BeginInsert(k, v) ==
    /\ Idle
    /\ NoReader
    /\ root' = insert(root, k, v)
    /\ run' = [log |-> insert_log(k, v), pos |-> 0, name |-> "insert", key |-> k]
    /\ UNCHANGED <<op, ret, heap, ref, hist, script, mem, reader, bal, arrVars, mainVars>>

BeginErase(k) ==
    /\ Idle
    /\ NoReader
    /\ root' = erase(root, k)
    /\ run' = [log |-> erase_log(k), pos |-> 0, name |-> "erase", key |-> k]
    /\ UNCHANGED <<op, ret, heap, ref, hist, script, mem, reader, bal, arrVars, mainVars>>

(* The next event of the call in progress takes effect. *)
WriteStep ==
    /\ ~Idle
    /\ mem' = [cells |-> run.log[run.pos + 1].cells,
               rootp |-> run.log[run.pos + 1].rootp]
    /\ run' = IF run.pos + 1 = Len(run.log) THEN NoRun
               ELSE [run EXCEPT !.pos = @ + 1]
    /\ UNCHANGED <<treeVars, reader, bal, arrVars, mainVars>>

(* A read-only call begins at root_, while no mutating call is in         *)
(* progress: one thread calls find, the other find_max.                   *)
BeginRead(r, k) ==
    /\ Idle
    /\ reader[r] = NoRead
    /\ reader' = [reader EXCEPT ![r] = [fn |-> ReaderCalls[r], key |-> k,
                                        cur |-> mem.rootp]]
    /\ UNCHANGED <<treeVars, mem, run, bal, arrVars, mainVars>>

(* find(node, key) returns node: at nullptr, or at the key. *)
FindReturns(r) ==
    /\ reader[r].fn = "find"
    /\ \/ reader[r].cur = 0
       \/ reader[r].key = mem.cells[reader[r].cur].key

(* find_max(node) throws: at nullptr. *)
FindMaxThrows(r) == reader[r].fn = "find_max" /\ reader[r].cur = 0

(* find_max(node) returns node: no right child. *)
FindMaxReturns(r) ==
    /\ reader[r].fn = "find_max"
    /\ reader[r].cur # 0
    /\ mem.cells[reader[r].cur].right = 0

(* One invocation of find(node, key): return node, or go on at a child. *)
FindStep(r) ==
    /\ reader[r].fn = "find"
    /\ reader' = [reader EXCEPT ![r] =
          IF FindReturns(r) THEN NoRead
          ELSE IF reader[r].key < mem.cells[reader[r].cur].key
          THEN [@ EXCEPT !.cur = mem.cells[reader[r].cur].left]
          ELSE [@ EXCEPT !.cur = mem.cells[reader[r].cur].right]]
    /\ UNCHANGED <<treeVars, mem, run, bal, arrVars, mainVars>>

(* One invocation of find_max(node): throw, go on to the right, or return *)
(* node.                                                                  *)
FindMaxStep(r) ==
    /\ reader[r].fn = "find_max"
    /\ reader' = [reader EXCEPT ![r] =
          IF FindMaxThrows(r) \/ FindMaxReturns(r) THEN NoRead
          ELSE [@ EXCEPT !.cur = mem.cells[reader[r].cur].right]]
    /\ UNCHANGED <<treeVars, mem, run, bal, arrVars, mainVars>>

NextSteps ==
    \/ \E k \in StepKeys : BeginInsert(k, "V1")
    \/ \E k \in StepKeys : BeginErase(k)
    \/ WriteStep
    \/ \E r \in Readers, k \in StepKeys : BeginRead(r, k)
    \/ \E r \in Readers : FindStep(r)
    \/ \E r \in Readers : FindMaxStep(r)

SpecSteps == Init /\ [][NextSteps]_vars

(* ------------------------------------------------------------------ *)
(* DynamicArray<T>                                                      *)
(* ------------------------------------------------------------------ *)

(* An element of new T[n] that nothing was assigned to yet. *)
DefaultT == "T()"

(* resize that allocates the new storage and copies nothing into it *)
resize_no_copy(a, newCapacity) ==
    IF newCapacity > a.capacity_
    THEN [data_ |-> [i \in 1..newCapacity |-> DefaultT],
          size_ |-> a.size_, capacity_ |-> newCapacity]
    ELSE a

(* void resize(unsigned int newCapacity); element i of the code is        *)
(* data_[i + 1] here                                                      *)
resize(a, newCapacity) ==
    IF newCapacity > a.capacity_
    THEN [data_ |-> [i \in 1..newCapacity |->
                        IF i <= a.size_ THEN a.data_[i] ELSE DefaultT],
          size_ |-> a.size_, capacity_ |-> newCapacity]
    ELSE a

(* void push_back(const T& value) *)
push_back(a, value) ==
    LET b == IF a.size_ = a.capacity_
             THEN resize(a, IF a.capacity_ > 0 THEN a.capacity_ * 2 ELSE 1)
             ELSE a
    IN  [b EXCEPT !.data_[b.size_ + 1] = value, !.size_ = @ + 1]

(* const T& operator[](unsigned int index) const, index below size_ *)
ElementAt(a, index) == a.data_[index + 1]

(* The values an array is filled with. *)
Elements == {"e1", "e2"}

PushBack(v) ==
    /\ Len(pushed) < MaxPush
    /\ arr' = push_back(arr, v)
    /\ pushed' = Append(pushed, v)
    /\ UNCHANGED <<treeVars, stepVars, bal, mainVars>>

NextArray == \E v \in Elements : PushBack(v)

SpecArray == Init /\ [][NextArray]_vars

(* void pop_back(): the call resize(size_ - 1) has one argument, so it is *)
(* resize(unsigned int newCapacity)                                       *)
pop_back(a) == IF a.size_ > 0 THEN resize(a, a.size_ - 1) ELSE a

(* An array after a write outside its storage ended the program. *)
Faulted ==
    [data_ |-> <<>>, size_ |-> 0, capacity_ |-> 0, fault |-> "SIGSEGV"]

(* void insert(unsigned int index, const T& value): the outcomes, each   *)
(* the array left behind and the exception thrown.  With size_ = 0 the   *)
(* loop starts at i = size_ - 1 = UINT_MAX and writes outside the        *)
(* storage: the program faults, or survives and goes on to                *)
(* data_[index] = value.                                                  *)
DynamicArray_insert(a, index, value) ==
    IF index > a.size_
    THEN {[arr |-> a, thrown |-> "std::out_of_range"]}
    ELSE LET b == resize(a, a.size_ + 1)
         IN  IF b.size_ = 0
             THEN {[arr |-> Faulted, thrown |-> "none"],
                   [arr |-> [b EXCEPT !.data_[index + 1] = value],
                    thrown |-> "none"]}
             ELSE {[arr |-> [b EXCEPT !.data_ =
                               [p \in 1..b.capacity_ |->
                                   IF p - 1 = index THEN value
                                   ELSE IF p - 1 > index /\ p - 1 <= b.size_ - 1
                                   THEN b.data_[p - 1]
                                   ELSE b.data_[p]]],
                    thrown |-> "none"]}

(* void resize(unsigned int newSize, const T& value) *)
resize_value(a, newSize, value) ==
    IF newSize > a.capacity_
    THEN LET newCapacity == IF newSize > a.capacity_ * 2 THEN newSize
                            ELSE a.capacity_ * 2
             copySize == IF newSize < a.size_ THEN newSize ELSE a.size_
         IN  [data_ |-> [p \in 1..newCapacity |->
                            IF p <= copySize THEN a.data_[p]
                            ELSE IF p <= newSize THEN value
                            ELSE DefaultT],
              size_ |-> newSize, capacity_ |-> newCapacity]
    ELSE [a EXCEPT !.size_ = newSize]

(* The array after push_back of each value of s in turn. *)
RECURSIVE Pushed(_)
Pushed(s) ==
    IF s = <<>> THEN EmptyArray
    ELSE push_back(Pushed(SubSeq(s, 1, Len(s) - 1)), s[Len(s)])

(* The calls below start on an array filled by up to MaxLen push_back    *)
(* calls.                                                                 *)
InitArrayCalls ==
    /\ InitTree
    /\ ref = [k \in Keys |-> NoVal]
    /\ script = NoScript
    /\ InitSteps
    /\ InitBalance
    /\ InitMain
    /\ pushed \in UNION {[1..n -> Elements] : n \in 0..MaxLen}
    /\ arr = Pushed(pushed)

PopBack ==
    /\ "fault" \notin DOMAIN arr
    /\ arr' = pop_back(arr)
    /\ UNCHANGED <<pushed, treeVars, stepVars, bal, mainVars>>

InsertAt(index, value) ==
    /\ "fault" \notin DOMAIN arr
    /\ \E o \in DynamicArray_insert(arr, index, value) : arr' = o.arr
    /\ UNCHANGED <<pushed, treeVars, stepVars, bal, mainVars>>

ResizeValue(newSize, value) ==
    /\ "fault" \notin DOMAIN arr
    /\ arr' = resize_value(arr, newSize, value)
    /\ UNCHANGED <<pushed, treeVars, stepVars, bal, mainVars>>

NextArrayCalls ==
    \/ PopBack
    \/ \E index \in 0..(MaxLen + 1), value \in Elements : InsertAt(index, value)
    \/ \E newSize \in 0..(MaxLen + 1), value \in Elements : ResizeValue(newSize, value)

SpecArrayCalls == InitArrayCalls /\ [][NextArrayCalls]_vars

(* ------------------------------------------------------------------ *)
(* The recommender program (main)                                       *)
(* ------------------------------------------------------------------ *)

(* calculateSimilarity's 0.3 per matching attribute, main's threshold 0.6  *)
(* and the 1.0 of weight = 1.0 - similarity, in tenths.  The sums are      *)
(* exact in tenths; in double 0.3 + 0.3 is the double 0.6, so two matches  *)
(* reach the threshold there too.                                          *)
AttributeWeight == 3
Threshold == 6
WholeWeight == 10

(* The characters of a numeric field: a digit and a character that is not. *)
isdigit(c) == c = "7"

DigitValue(c) == IF c = "7" THEN 7 ELSE 0

(* cleanString(str): the digits of str *)
cleanString(str) == SelectSeq(str, isdigit)

invalid_argument == [ok |-> FALSE, what |-> "std::invalid_argument"]

(* The number std::stoi / std::stof read from the leading digits of str,   *)
(* having read n so far.                                                   *)
RECURSIVE ReadDigits(_, _)
ReadDigits(str, n) ==
    IF str = <<>> \/ ~isdigit(Head(str)) THEN n
    ELSE ReadDigits(Tail(str), 10 * n + DigitValue(Head(str)))

(* std::stoi(str): throws std::invalid_argument when str does not begin    *)
(* with a number                                                           *)
stoi(str) ==
    IF str = <<>> \/ ~isdigit(Head(str)) THEN invalid_argument
    ELSE [ok |-> TRUE, value |-> ReadDigits(str, 0)]

(* std::stof(str), on the same characters *)
stof(str) ==
    IF str = <<>> \/ ~isdigit(Head(str)) THEN invalid_argument
    ELSE [ok |-> TRUE, value |-> ReadDigits(str, 0)]

(* The body of loadDataIntoArray's loop up to push_back: the Libro of a    *)
(* line, or the exception thrown on the way (id, then average_rating,      *)
(* then num_page).  Titles and genres are numbered in their string order.  *)
ParseLine(line) ==
    LET id == stoi(cleanString(line.id))
        average_rating == stof(line.average_rating)
        num_page == stoi(line.num_page)
    IN  IF ~id.ok THEN id
        ELSE IF ~average_rating.ok THEN average_rating
        ELSE IF ~num_page.ok THEN num_page
        ELSE [ok |-> TRUE,
              value |-> [id |-> id.value, title |-> line.title,
                         author |-> line.author, genre |-> line.genre,
                         average_rating |-> average_rating.value,
                         num_page |-> num_page.value,
                         publication_date |-> line.publication_date,
                         publisher |-> line.publisher]]

(* double calculateSimilarity(const Libro&, const Libro&), in tenths *)
calculateSimilarity(book1, book2) ==
    (IF book1.author = book2.author THEN AttributeWeight ELSE 0)
    + (IF book1.genre = book2.genre THEN AttributeWeight ELSE 0)
    + (IF book1.publication_date = book2.publication_date
       THEN AttributeWeight ELSE 0)

(* adjacencyList[book].emplace_back(other, weight) *)
emplace_back(g, book, other, weight) ==
    IF book \in DOMAIN g
    THEN [g EXCEPT ![book] = Append(@, <<other, weight>>)]
    ELSE g @@ (book :> << <<other, weight>> >>)

(* Graph::addEdge that stores the edge at book1 only *)
addEdge_one_way(g, book1, book2, weight) ==
    emplace_back(g, book1, book2, weight)

(* Graph::addEdge(book1, book2, weight) *)
addEdge(g, book1, book2, weight) ==
    emplace_back(emplace_back(g, book1, book2, weight), book2, book1, weight)

(* The output of Graph::displayAdjacent(book): the neighbours in the order *)
(* the loop meets them                                                     *)
displayAdjacent(g, book) ==
    IF book \in DOMAIN g THEN [found |-> TRUE, lines |-> g[book]]
    ELSE [found |-> FALSE, lines |-> <<>>]

(* mapa[i] = libro on an unordered_map<int, Libro> *)
MapPut(mapa, i, libro) ==
    [k \in DOMAIN mapa \cup {i} |-> IF k = i THEN libro ELSE mapa[k]]

(* nodo->value[i] = libro written to a copy of the node, not to the node *)
put_value_on_copy(node, key, i, libro) == node

(* nodo->value[i] = libro for nodo = find(key): the write reaches the one  *)
(* node of the tree that find returns                                      *)
RECURSIVE put_value(_, _, _, _)
put_value(node, key, i, libro) ==
    IF node = nullptr THEN node
    ELSE IF key = node.key
    THEN [node EXCEPT !.value = MapPut(@, i, libro)]
    ELSE IF key < node.key
    THEN [node EXCEPT !.left = put_value(node.left, key, i, libro)]
    ELSE [node EXCEPT !.right = put_value(node.right, key, i, libro)]

(* The input files.  Titles are 1, 2, ... in string order, genres 1 and 2. *)
Genres == 1..2

Authors == {"a1", "a2"}

Dates == {"d1", "d2"}

Line(t, a, g, d) ==
    [id |-> <<"7">>, title |-> t, author |-> a, genre |-> g,
     average_rating |-> <<"7">>, num_page |-> <<"7">>,
     publication_date |-> d, publisher |-> "p"]

(* Well-formed files: line i has title i, or the second line has the       *)
(* title of the first; every choice of author, genre and date.             *)
BookFiles ==
    UNION {{[i \in 1..n |-> Line(IF dup /\ i = 2 THEN 1 ELSE i, a[i], g[i], d[i])] :
               a \in [1..n -> Authors], g \in [1..n -> Genres],
               d \in [1..n -> Dates], dup \in BOOLEAN} : n \in 0..MaxBooks}

(* What a numeric field may hold: nothing, digits, no digit, digits        *)
(* followed or preceded by another character.                              *)
NumTexts == {<<>>, <<"7">>, <<"x">>, <<"7", "x">>, <<"x", "7">>}

(* Files whose line p has any text in its numeric fields. *)
NumberFiles ==
    UNION {{[i \in 1..n |->
                IF i = p
                THEN [Line(i, "a1", 1, "d1") EXCEPT
                         !.id = x, !.average_rating = y, !.num_page = z]
                ELSE Line(i, "a1", 1, "d1")] :
               p \in 1..n, x \in NumTexts, y \in NumTexts, z \in NumTexts} :
           n \in 1..MaxBooks}

InitProgram ==
    /\ InitTree
    /\ ref = [k \in Keys |-> NoVal]
    /\ script = NoScript
    /\ InitSteps
    /\ InitBalance
    /\ InitArray
    /\ file \in BookFiles \cup NumberFiles
    /\ libros = EmptyArray
    /\ avl = nullptr
    /\ tree = nullptr
    /\ grafo = <<>>
    /\ main = [pc |-> "load", i |-> 0, j |-> 0]
    /\ shown = <<>>

Goto(pc, i, j) == [pc |-> pc, i |-> i, j |-> j]

Rest == <<treeVars, stepVars, bal, arrVars>>

(* loadDataIntoArray, one line: the Libro is parsed and pushed; an         *)
(* exception thrown by stoi/stof is caught nowhere (main calls the routine *)
(* outside its try block), so the program is terminated.                   *)
LoadLine ==
    /\ main.pc = "load"
    /\ main.i < Len(file)
    /\ LET libro == ParseLine(file[main.i + 1])
       IN  IF libro.ok
           THEN /\ libros' = push_back(libros, libro.value)
                /\ main' = Goto("load", main.i + 1, 0)
                /\ shown' = <<>>
           ELSE /\ libros' = libros
                /\ main' = Goto("terminated", main.i, 0)
                /\ shown' = <<"terminate called after throwing", libro.what>>
    /\ UNCHANGED <<file, avl, tree, grafo, Rest>>

(* getline fails at the end of the file: the routine returns *)
LoadDone ==
    /\ main.pc = "load"
    /\ main.i = Len(file)
    /\ main' = Goto("avl", 0, 0)
    /\ shown' = <<>>
    /\ UNCHANGED <<file, libros, avl, tree, grafo, Rest>>

(* avl.insert(libros_final[i].title, i) *)
InsertTitle ==
    /\ main.pc = "avl"
    /\ main.i < libros.size_
    /\ avl' = insert(avl, ElementAt(libros, main.i).title, main.i)
    /\ main' = Goto("avl", main.i + 1, 0)
    /\ shown' = <<>>
    /\ UNCHANGED <<file, libros, tree, grafo, Rest>>

TitlesDone ==
    /\ main.pc = "avl"
    /\ main.i = libros.size_
    /\ main' = Goto("query", 0, 0)
    /\ shown' = <<>>
    /\ UNCHANGED <<file, libros, avl, tree, grafo, Rest>>

(* The title typed in: avl.find(book_name), else avl.findClosest(book_name) *)
SearchTitle(book_name, kind) ==
    /\ main.pc = "query"
    /\ shown' =
          IF find(avl, book_name) # nullptr
          THEN <<"found", find(avl, book_name).value,
                 ElementAt(libros, find(avl, book_name).value)>>
          ELSE IF findClosest(avl, book_name, kind) # nullptr
          THEN <<"closest", findClosest(avl, book_name, kind).key,
                 ElementAt(libros, findClosest(avl, book_name, kind).value)>>
          ELSE <<"none">>
    /\ main' = Goto("categorias", 0, 0)
    /\ UNCHANGED <<file, libros, avl, tree, grafo, Rest>>

(* construirAVLDeCategorias, one iteration of its loop *)
AddToCategory ==
    /\ main.pc = "categorias"
    /\ main.i < libros.size_
    /\ LET categoria == ElementAt(libros, main.i).genre
       IN  tree' = IF find(tree, categoria) # nullptr
                   THEN put_value(tree, categoria, main.i, ElementAt(libros, main.i))
                   ELSE insert(tree, categoria, main.i :> ElementAt(libros, main.i))
    /\ main' = Goto("categorias", main.i + 1, 0)
    /\ shown' = <<>>
    /\ UNCHANGED <<file, libros, avl, grafo, Rest>>

CategoriesDone ==
    /\ main.pc = "categorias"
    /\ main.i = libros.size_
    /\ main' = Goto("menu", 0, 0)
    /\ shown' = <<>>
    /\ UNCHANGED <<file, libros, avl, tree, grafo, Rest>>

(* buscarPorCategoria(categoria, tree) from the menu *)
SearchCategory(categoria) ==
    /\ main.pc = "menu"
    /\ shown' = IF find(tree, categoria) # nullptr
                THEN <<"categoria", find(tree, categoria).value>>
                ELSE <<"no encontrada">>
    /\ UNCHANGED <<file, libros, avl, tree, grafo, main, Rest>>

(* "salir" typed in: the menu loop ends, the graph loops begin at (0, 1) *)
LeaveMenu ==
    /\ main.pc = "menu"
    /\ main' = Goto("grafo", 0, 1)
    /\ shown' = <<>>
    /\ UNCHANGED <<file, libros, avl, tree, grafo, Rest>>

(* The body of the graph loops for the pair (i, j), i < j < size *)
ComparePair ==
    /\ main.pc = "grafo"
    /\ main.j < libros.size_
    /\ LET similarity == calculateSimilarity(ElementAt(libros, main.i),
                                             ElementAt(libros, main.j))
       IN  grafo' = IF similarity >= Threshold
                    THEN addEdge(grafo, ElementAt(libros, main.i).title,
                                 ElementAt(libros, main.j).title,
                                 WholeWeight - similarity)
                    ELSE grafo
    /\ main' = Goto("grafo", main.i, main.j + 1)
    /\ shown' = <<>>
    /\ UNCHANGED <<file, libros, avl, tree, Rest>>

(* The inner loop ends: ++i, j = i + 1 *)
NextRow ==
    /\ main.pc = "grafo"
    /\ main.j >= libros.size_
    /\ main.i < libros.size_
    /\ main' = Goto("grafo", main.i + 1, main.i + 2)
    /\ shown' = <<>>
    /\ UNCHANGED <<file, libros, avl, tree, grafo, Rest>>

(* The outer loop ends; grafo.displayAdjacent(titulo) for the title typed  *)
(* in, and main returns                                                    *)
Display(titulo) ==
    /\ main.pc = "grafo"
    /\ main.i >= libros.size_
    /\ shown' = <<"adyacentes", titulo, displayAdjacent(grafo, titulo)>>
    /\ main' = Goto("done", 0, 0)
    /\ UNCHANGED <<file, libros, avl, tree, grafo, Rest>>

NextProgram ==
    \/ LoadLine
    \/ LoadDone
    \/ InsertTitle
    \/ TitlesDone
    \/ \E t \in 1..(MaxBooks + 1), kind \in CompareKinds : SearchTitle(t, kind)
    \/ AddToCategory
    \/ CategoriesDone
    \/ \E g \in Genres : SearchCategory(g)
    \/ LeaveMenu
    \/ ComparePair
    \/ NextRow
    \/ \E t \in 1..(MaxBooks + 1) : Display(t)

SpecProgram == InitProgram /\ [][NextProgram]_vars

(* ------------------------------------------------------------------ *)
(* balance on its own                                                   *)
(* ------------------------------------------------------------------ *)

(* A node over two subtrees, its height as update_height leaves it. *)
NodeOver(k, l, r) ==
    update_height([KeyValueAVLNode(k, "V1") EXCEPT !.left = l, !.right = r])

(* The AVL trees on the keys lo..hi, heights cached. *)
RECURSIVE AVLTreesOn(_, _)
AVLTreesOn(lo, hi) ==
    IF lo > hi THEN {nullptr}
    ELSE UNION {{NodeOver(k, l, r) :
                    <<l, r>> \in {p \in AVLTreesOn(lo, k - 1) \X AVLTreesOn(k + 1, hi) :
                                    height(p[1]) - height(p[2]) \in -1..1}} :
                k \in lo..hi}

(* What insert and erase hand to balance: a node whose height was just    *)
(* updated, over two AVL subtrees whose heights differ by two at most.    *)
BalanceInputs ==
    UNION {{NodeOver(k, l, r) :
               <<l, r>> \in {p \in AVLTreesOn(1, k - 1) \X AVLTreesOn(k + 1, n) :
                               height(p[1]) - height(p[2]) \in -2..2}} :
           <<k, n>> \in {q \in (1..MaxNodes) \X (1..MaxNodes) : q[1] <= q[2]}}

InitBalanceCall ==
    /\ InitTree
    /\ ref = [k \in Keys |-> NoVal]
    /\ script = NoScript
    /\ InitSteps
    /\ InitArray
    /\ InitMain
    /\ bal \in {[in |-> t, out |-> nullptr] : t \in BalanceInputs}

(* node = balance(node) *)
Balance ==
    /\ bal.out = nullptr
    /\ bal' = [bal EXCEPT !.out = balance(bal.in)]
    /\ UNCHANGED <<treeVars, stepVars, arrVars, mainVars>>

NextBalance == Balance

SpecBalance == InitBalanceCall /\ [][NextBalance]_vars

(* ------------------------------------------------------------------ *)
(* Vocabulary of the properties                                         *)
(* ------------------------------------------------------------------ *)

(* The nodes of a tree, each given by the subtree it roots. *)
RECURSIVE Nodes(_)
Nodes(node) ==
    IF node = nullptr THEN {}
    ELSE {node} \cup Nodes(node.left) \cup Nodes(node.right)

(* The height of a subtree counted from its shape, cached fields ignored. *)
RECURSIVE TrueHeight(_)
TrueHeight(node) ==
    IF node = nullptr THEN 0
    ELSE 1 + Max(TrueHeight(node.left), TrueHeight(node.right))

(* The keys and the (key, value) pairs stored anywhere in a tree. *)
KeysOf(node) == {n.key : n \in Nodes(node)}

PairsOf(node) == {<<n.key, n.value>> : n \in Nodes(node)}

Abs(x) == IF x < 0 THEN -x ELSE x

(* C1: after every insert/erase, every node's left and right subtrees      *)
(* differ in true height by at most 1.                                     *)
C1_Balanced ==
    \A n \in Nodes(root) : Abs(TrueHeight(n.left) - TrueHeight(n.right)) <= 1

(* An insert of a new key that ended as an inner node: it was placed as a  *)
(* leaf and lifted by a double rotation.                                   *)
C1_Witness ==
    /\ op.name = "insert"
    /\ ~op.hit
    /\ find(root, op.key) # nullptr
    /\ find(root, op.key).left # nullptr
    /\ find(root, op.key).right # nullptr

(* C2: in every reachable state the inorder traversal lists the keys in    *)
(* strictly increasing order; so each node has only smaller keys to its    *)
(* left, only larger keys to its right, and no key is stored twice.        *)
C2_InorderStrictlyIncreasing ==
    LET s == inorder_traversal(root)
    IN  /\ \A i \in 1..(Len(s) - 1) : s[i][1] < s[i + 1][1]
        /\ \A n \in Nodes(root) :
               /\ \A k \in KeysOf(n.left) : k < n.key
               /\ \A k \in KeysOf(n.right) : k > n.key
        /\ Cardinality(KeysOf(root)) = size(root)

(* An erase of a key other than the root's that changed the root: the      *)
(* return path rotated at the root, on a tree of every key but one.        *)
C2_Witness ==
    /\ op.name = "erase"
    /\ op.hit
    /\ op.key # op.rootBefore
    /\ root # nullptr
    /\ root.key # op.rootBefore
    /\ Len(inorder_traversal(root)) = MaxKey - 1

(* C3: insert(K, V2) on a tree that holds K leaves the tree identical      *)
(* (shape, keys, values, cached heights) and find(K) still yields V1.      *)
C3_InsertPresentIsNoOp ==
    [][ (op'.name = "insert" /\ op'.key \in KeysOf(root))
          => /\ root' = root
             /\ find(root', op'.key) # nullptr
             /\ find(root', op'.key).value = find(root, op'.key).value ]_vars

(* An insert of a present key with a value other than the stored one.      *)
C3_Witness ==
    /\ op.name = "insert"
    /\ op.hit
    /\ find(root, op.key) # nullptr
    /\ find(root, op.key).value # op.value

(* C4, as stated: size() equals the number of distinct keys ever inserted  *)
(* minus the number of erase calls that removed a present key.             *)
C4_SizeIsDistinctInsertedMinusErased ==
    size(root) = Cardinality(hist.everInserted) - hist.nEra

(* C4, amended: size() equals the number of insert calls that found their  *)
(* key absent minus the number of erase calls that found their key         *)
(* present.                                                                *)
C4_SizeIsInsertsMinusErases ==
    size(root) = hist.nIns - hist.nEra

(* A key erased earlier has just been inserted again. *)
C4_Witness ==
    /\ op.name = "insert"
    /\ ~op.hit
    /\ hist.nEra >= 1
    /\ hist.nIns > Cardinality(hist.everInserted)
    /\ size(root) >= 2

(* The value find yields for a key, NoVal when find yields nullptr. *)
Lookup(node, k) ==
    IF find(node, k) = nullptr THEN NoVal ELSE find(node, k).value

(* C5: insert(k, v) of an absent key makes the key set S \cup {k} with     *)
(* find(k) yielding v; every other key stays, with its value, and no       *)
(* node is added or dropped beyond the new one.                            *)
C5_InsertAbsentAddsOnlyKey ==
    [][ (op'.name = "insert" /\ op'.key \notin KeysOf(root))
          => /\ KeysOf(root') = KeysOf(root) \cup {op'.key}
             /\ PairsOf(root') = PairsOf(root) \cup {<<op'.key, op'.value>>}
             /\ size(root') = size(root) + 1
             /\ find(root', op'.key) # nullptr
             /\ find(root', op'.key).key = op'.key
             /\ Lookup(root', op'.key) = op'.value
             /\ \A j \in KeysOf(root) : Lookup(root', j) = Lookup(root, j) ]_vars

(* An insert of a new key whose rebalancing replaced the root. *)
C5_Witness ==
    /\ op.name = "insert"
    /\ ~op.hit
    /\ op.rootBefore # 0
    /\ root.key # op.rootBefore
    /\ size(root) >= 3

(* C6: erase(k) of a present key makes the mapping M without k: find(k) is *)
(* absent, every other key keeps its value, one node less.                 *)
C6_EraseRemovesOnlyKey ==
    [][ (op'.name = "erase" /\ op'.key \in KeysOf(root))
          => /\ KeysOf(root') = KeysOf(root) \ {op'.key}
             /\ PairsOf(root') = PairsOf(root) \ {<<op'.key, Lookup(root, op'.key)>>}
             /\ size(root') = size(root) - 1
             /\ find(root', op'.key) = nullptr
             /\ \A j \in KeysOf(root) \ {op'.key} :
                    Lookup(root', j) = Lookup(root, j) ]_vars

(* An erase that located its key at a node with two children. *)
C6_Witness ==
    /\ op.name = "erase"
    /\ op.hit
    /\ op.two
    /\ size(root) >= 3

(* C7: find agrees with the reference map on every key: a node with that   *)
(* key (and the value first stored) when the key was inserted and not      *)
(* erased since, nullptr otherwise.                                        *)
C7_FindAgreesWithReference ==
    \A k \in Keys :
        IF ref[k] = NoVal
        THEN find(root, k) = nullptr
        ELSE /\ find(root, k) # nullptr
             /\ find(root, k).key = k
             /\ find(root, k).value = ref[k]

(* After an erase, on a tree still holding keys on both sides of the       *)
(* erased one: find misses the erased key and meets the others.            *)
C7_Witness ==
    /\ op.name = "erase"
    /\ op.hit
    /\ find(root, op.key) = nullptr
    /\ \E a, b \in Keys :
          /\ a < op.key /\ op.key < b
          /\ find(root, a) # nullptr /\ find(root, b) # nullptr

(* C8: erase(k) of an absent key leaves the tree identical (shape, keys,   *)
(* values, cached heights).                                                *)
C8_EraseAbsentIsNoOp ==
    [][ (op'.name = "erase" /\ op'.key \notin KeysOf(root))
          => root' = root ]_vars

(* An erase of an absent key whose search path ran through a tree of       *)
(* height 3, every ancestor re-balanced on the way back.                   *)
C8_Witness ==
    /\ op.name = "erase"
    /\ ~op.hit
    /\ op.key \notin KeysOf(root)
    /\ TrueHeight(root) >= 3

(* C9: N unique keys inserted (all present at once), then all N erased:    *)
(* the tree is empty, size() = 0 and root() = nullptr.                     *)
C9_RoundTripEmpty ==
    ( /\ hist.nIns = Cardinality(hist.everInserted)
      /\ hist.peak = hist.nIns
      /\ hist.nEra = hist.nIns )
        => (size(root) = 0 /\ root = nullptr)

(* The round trip completed for N = MaxOps / 2 keys. *)
C9_Witness ==
    /\ op.name = "erase"
    /\ op.hit
    /\ hist.nIns = MaxOps \div 2
    /\ hist.nIns = Cardinality(hist.everInserted)
    /\ hist.peak = hist.nIns
    /\ hist.nEra = hist.nIns
    /\ root = nullptr

(* C10: every node's cached height is 1 + max of its children's cached     *)
(* heights (0 for an absent child), is at least 1, and is the true height. *)
C10_CachedHeights ==
    \A n \in Nodes(root) :
        /\ n.height = 1 + Max(height(n.left), height(n.right))
        /\ n.height >= 1
        /\ n.height = TrueHeight(n)

(* The root was erased as a two-children node and the return path then     *)
(* rotated: a key larger than the erased one is the new root.              *)
C10_Witness ==
    /\ op.name = "erase"
    /\ op.hit
    /\ op.two
    /\ op.key = op.rootBefore
    /\ root # nullptr
    /\ root.key > op.key

(* The smallest and the largest element of a non-empty set of keys. *)
MinOf(S) == CHOOSE x \in S : \A y \in S : x <= y

MaxOf(S) == CHOOSE x \in S : \A y \in S : x >= y

(* C11: find_min() and find_max() on an empty tree throw std::out_of_range  *)
(* and the tree is still empty afterwards.                                  *)
C11_EmptyMinMaxThrows ==
    (op.name \in {"find_min", "find_max"} /\ op.rootBefore = 0)
        => /\ ret.thrown = "std::out_of_range"
           /\ ret.value = out_of_range
           /\ root = nullptr
           /\ size(root) = 0

(* find_max() was called on the empty tree and threw. *)
C11_Witness ==
    /\ op.name = "find_max"
    /\ op.rootBefore = 0
    /\ ret.thrown = "std::out_of_range"
    /\ root = nullptr

(* C12: on every non-empty tree find_min() yields the node of the smallest  *)
(* key present and find_max() the node of the largest, without throwing.    *)
C12_MinMaxAreExtremes ==
    /\ root # nullptr =>
          /\ find_min(root) \in Nodes(root)
          /\ find_min(root).key = MinOf(KeysOf(root))
          /\ find_max(root) \in Nodes(root)
          /\ find_max(root).key = MaxOf(KeysOf(root))
    /\ (op.name = "find_min" /\ root # nullptr) =>
          (ret.thrown = "none" /\ ret.value = find_min(root))
    /\ (op.name = "find_max" /\ root # nullptr) =>
          (ret.thrown = "none" /\ ret.value = find_max(root))

(* find_min() answered with a node two links below the root. *)
C12_Witness ==
    /\ op.name = "find_min"
    /\ root # nullptr
    /\ root.left # nullptr
    /\ root.left.left # nullptr
    /\ ret.value = root.left.left

(* The number of nodes of the sparsest AVL tree of height h. *)
RECURSIVE MinNodes(_)
MinNodes(h) == IF h <= 0 THEN 0 ELSE IF h = 1 THEN 1
               ELSE 1 + MinNodes(h - 1) + MinNodes(h - 2)

(* floor(100 * log2(n)) for 1 <= n <= 16 *)
Log2Times100(n) ==
    <<0, 100, 158, 200, 232, 258, 280, 300,
      316, 332, 345, 358, 370, 380, 390, 400>>[n]

(* C13: with N keys in the tree, its height h satisfies                      *)
(* h <= 1.44 * log2(N + 1), and N is at least the size of the sparsest AVL  *)
(* tree of height h.                                                        *)
C13_HeightBound ==
    LET N == size(root)
        h == TrueHeight(root)
    IN  /\ N >= MinNodes(h)
        /\ 100 * 100 * h <= 144 * Log2Times100(N + 1)

(* Only inserts so far, MaxKey of them, and the tree has height 3. *)
C13_Witness ==
    /\ hist.nEra = 0
    /\ hist.nIns = MaxKey
    /\ size(root) = MaxKey
    /\ TrueHeight(root) = 3

(* C14: the keys 1, 2, ..., 7 inserted in increasing order give a tree of   *)
(* height exactly 3: the perfectly balanced tree rooted at 4.               *)
C14_AscendingSevenHeightThree ==
    (script.calls = AscendingScript(AscendingKeys)
        /\ script.pc = Len(script.calls) + 1)
      => /\ TrueHeight(root) = 3
         /\ height(root) = 3
         /\ size(root) = Cardinality(AscendingKeys)
         /\ root.key = 4
         /\ \A n \in Nodes(root) : calculate_balance_factor(n) = 0

(* The seven ascending inserts have all been replayed. *)
C14_Witness ==
    /\ script.calls = AscendingScript(AscendingKeys)
    /\ script.pc = Len(script.calls) + 1
    /\ op.name = "insert"
    /\ op.key = Cardinality(AscendingKeys)
    /\ size(root) = Cardinality(AscendingKeys)

(* The inserts of the letter scenario: m, b, z, a, c with 1, 2, 3, 4, 5. *)
MBZAC == <<Letter.m, Letter.b, Letter.z, Letter.a, Letter.c>>

AfterMBZAC ==
    /\ Len(script.calls) = Len(MBZAC) + 1
    /\ SubSeq(script.calls, 1, Len(MBZAC)) = SubSeq(LetterScript(MBZAC, Letter.m), 1, Len(MBZAC))
    /\ script.pc = Len(MBZAC) + 1

(* C15: after inserting m, b, z, a, c with values 1..5 the inorder          *)
(* traversal is (a,4) (b,2) (c,5) (m,1) (z,3), find_min() has key a and     *)
(* find_max() has key z.                                                    *)
C15_LetterScenario ==
    AfterMBZAC
      => /\ inorder_traversal(root) =
                << <<Letter.a, "4">>, <<Letter.b, "2">>, <<Letter.c, "5">>,
                   <<Letter.m, "1">>, <<Letter.z, "3">> >>
         /\ find_min(root).key = Letter.a
         /\ find_max(root).key = Letter.z

(* The five letters are in, the last insert was c. *)
C15_Witness ==
    /\ AfterMBZAC
    /\ op.name = "insert"
    /\ op.key = Letter.c
    /\ size(root) = Len(MBZAC)

(* The in-order predecessor of k among the keys of a tree. *)
Predecessor(node, k) == MaxOf({j \in KeysOf(node) : j < k})

(* C16: an erase that meets its key at a node with two children puts the    *)
(* in-order predecessor (the largest key below k) in its place and deletes  *)
(* the predecessor's node; the tree is balanced afterwards.  Erasing the    *)
(* root m of the letter scenario leaves c at the root, over b and z.        *)
C16_TwoChildrenErasePredecessor ==
    [][ (op'.name = "erase" /\ TwoChildren(root, op'.key))
          => /\ find_max(find(root, op'.key).left).key = Predecessor(root, op'.key)
             /\ Len(heap'.deleted) = 1
             /\ heap'.deleted[1].key = Predecessor(root, op'.key)
             /\ KeysOf(root') = KeysOf(root) \ {op'.key}
             /\ (op'.key = root.key) =>
                    (root'.key = Predecessor(root, op'.key) \/ root'.key > op'.key)
             /\ (script.calls = LetterScript(MBZAC, Letter.m)) =>
                    /\ root'.key = Letter.c
                    /\ root'.left.key = Letter.b
                    /\ root'.right.key = Letter.z
             /\ C1_Balanced' ]_vars

(* The root m of the letter scenario has been erased; c took its place. *)
C16_Witness ==
    /\ script.calls = LetterScript(MBZAC, Letter.m)
    /\ script.pc = Len(script.calls) + 1
    /\ op.name = "erase"
    /\ op.two
    /\ op.key = Letter.m
    /\ op.rootBefore = Letter.m
    /\ root.key = Letter.c

(* C17: findClosest(key) yields nullptr exactly when the tree is empty; on  *)
(* a non-empty tree it yields a node of the tree, whatever the key and the  *)
(* magnitudes the three-way comparison reports.                             *)
C17_ClosestAbsentIffEmpty ==
    /\ \A k \in Keys, kind \in CompareKinds :
          /\ (findClosest(root, k, kind) = nullptr) <=> (root = nullptr)
          /\ root # nullptr => findClosest(root, k, kind) \in Nodes(root)
    /\ op.name = "findClosest" =>
          /\ ret.thrown = "none"
          /\ (ret.value = nullptr) <=> (root = nullptr)
          /\ root # nullptr => ret.value \in Nodes(root)

(* findClosest of an absent key answered with a node below the root. *)
C17_Witness ==
    /\ op.name = "findClosest"
    /\ ~op.hit
    /\ root # nullptr
    /\ ret.value # nullptr
    /\ ret.value # root
    /\ ret.value \in Nodes(root)

(* The last node on the descent find makes for a key. *)
RECURSIVE LastVisited(_, _)
LastVisited(node, k) ==
    IF node = nullptr THEN nullptr
    ELSE IF k < node.key /\ node.left # nullptr THEN LastVisited(node.left, k)
    ELSE IF k > node.key /\ node.right # nullptr THEN LastVisited(node.right, k)
    ELSE node

(* C18, as stated: with a three-way comparison that reports only the order, *)
(* findClosest of an absent key yields the last node visited on the         *)
(* descent.                                                                 *)
C18_SignOnlyReturnsLastVisited ==
    (op.name = "findClosest" /\ op.cmp = "sign" /\ ~op.hit)
        => ret.value = LastVisited(root, op.key)

(* C18, amended: with a three-way comparison that reports only the order,   *)
(* findClosest of an absent key yields the first node visited, the root:    *)
(* no later node is strictly closer than the first candidate.               *)
C18_SignOnlyReturnsRoot ==
    /\ (op.name = "findClosest" /\ op.cmp = "sign" /\ ~op.hit)
          => ret.value = root
    /\ \A k \in Keys \ KeysOf(root) : findClosest(root, k, "sign") = root

(* A sign-only findClosest of an absent key whose descent ended two links   *)
(* below the root, and the root was the answer.                             *)
C18_Witness ==
    /\ op.name = "findClosest"
    /\ op.cmp = "sign"
    /\ ~op.hit
    /\ TrueHeight(root) >= 3
    /\ LastVisited(root, op.key) # root
    /\ LastVisited(root, op.key) \notin {root.left, root.right}
    /\ ret.value = root

(* The place of key k in a sequence of (key, value) pairs. *)
Pos(s, k) == CHOOSE i \in 1..Len(s) : s[i][1] = k

(* Every pair of the tree occurs in s, once. *)
EachPairOnce(s, node) ==
    /\ Len(s) = size(node)
    /\ {s[i] : i \in 1..Len(s)} = PairsOf(node)
    /\ \A i, j \in 1..Len(s) : i # j => s[i] # s[j]

(* C19: preorder_traversal emits each node before its left subtree and that *)
(* before its right subtree, inorder_traversal the left subtree, the node,  *)
(* the right subtree, postorder_traversal the left subtree, the right       *)
(* subtree, the node; each holds every stored pair once, size() in all.     *)
C19_TraversalOrders ==
    LET pre == preorder_traversal(root)
        ino == inorder_traversal(root)
        post == postorder_traversal(root)
    IN  /\ EachPairOnce(pre, root)
        /\ EachPairOnce(ino, root)
        /\ EachPairOnce(post, root)
        /\ \A n \in Nodes(root) :
              /\ \A l \in KeysOf(n.left) :
                    /\ Pos(pre, n.key) < Pos(pre, l)
                    /\ Pos(ino, l) < Pos(ino, n.key)
                    /\ Pos(post, l) < Pos(post, n.key)
              /\ \A r \in KeysOf(n.right) :
                    /\ Pos(pre, n.key) < Pos(pre, r)
                    /\ Pos(ino, n.key) < Pos(ino, r)
                    /\ Pos(post, r) < Pos(post, n.key)
              /\ \A l \in KeysOf(n.left), r \in KeysOf(n.right) :
                    /\ Pos(pre, l) < Pos(pre, r)
                    /\ Pos(ino, l) < Pos(ino, r)
                    /\ Pos(post, l) < Pos(post, r)
        /\ op.name = "preorder_traversal" => ret.value = pre
        /\ op.name = "inorder_traversal" => ret.value = ino
        /\ op.name = "postorder_traversal" => ret.value = post

(* postorder_traversal() answered on a full tree of height 3 on which the   *)
(* three orders all differ.                                                 *)
C19_Witness ==
    /\ op.name = "postorder_traversal"
    /\ Len(ret.value) = MaxKey
    /\ TrueHeight(root) = 3
    /\ ret.value # preorder_traversal(root)
    /\ ret.value # inorder_traversal(root)
    /\ preorder_traversal(root) # inorder_traversal(root)

(* C20: clear() deletes every node of the tree, each once, and leaves the   *)
(* tree as the constructor makes it: root() is nullptr, size() is 0, and    *)
(* an insert that follows builds the one-node tree.                         *)
C20_ClearDestroysAllAndResets ==
    [][ op'.name = "clear"
          => /\ Len(heap'.deleted) = size(root)
             /\ {heap'.deleted[i] : i \in 1..Len(heap'.deleted)} = Nodes(root)
             /\ \A i, j \in 1..Len(heap'.deleted) :
                    i # j => heap'.deleted[i].key # heap'.deleted[j].key
             /\ root' = nullptr
             /\ size(root') = 0
             /\ \A k \in Keys : find(root', k) = nullptr /\ ref'[k] = NoVal
             /\ \A k \in Keys, v \in Values :
                    /\ insert(root', k, v) = KeyValueAVLNode(k, v)
                    /\ erase(root', k) = nullptr ]_vars

(* clear() was called on a tree holding every key. *)
C20_Witness ==
    /\ op.name = "clear"
    /\ op.hit
    /\ Len(heap.deleted) = MaxKey
    /\ root = nullptr

(* The tree a reader starting at root_ meets in memory right now. *)
Seen == TreeOf(mem.cells, mem.rootp)

(* The BST order: smaller keys only to the left, larger only to the right. *)
StrictOrder(t) ==
    \A n \in Nodes(t) :
        /\ \A k \in KeysOf(n.left) : k < n.key
        /\ \A k \in KeysOf(n.right) : k > n.key

(* The event that made the memory as it is, while a call is in progress. *)
InRotation == run.pos > 0 /\ run.log[run.pos].rot

FirstRotationWrite ==
    /\ InRotation
    /\ \/ run.log[run.pos].fn = "rotate_left" /\ run.log[run.pos].field = "right"
       \/ run.log[run.pos].fn = "rotate_right" /\ run.log[run.pos].field = "left"

AfterKeyOverwrite ==
    /\ run.pos > 0
    /\ run.log[run.pos].fn = "erase"
    /\ run.log[run.pos].field = "key"

Indexed ==
    IF main.pc = "categorias" THEN main.i
    ELSE IF main.pc \in {"menu", "grafo", "done"} THEN libros.size_
    ELSE 0

(* The indices below n of the records of genre g. *)
IndicesOf(g, n) == {i \in 0..(n - 1) : ElementAt(libros, i).genre = g}

CategoryIndex ==
    /\ \A i \in 0..(Indexed - 1) :
          LET nodo == find(tree, ElementAt(libros, i).genre)
          IN  /\ nodo # nullptr
              /\ i \in DOMAIN nodo.value
              /\ nodo.value[i] = ElementAt(libros, i)
    /\ \A n \in Nodes(tree) : DOMAIN n.value = IndicesOf(n.key, Indexed)

(* C22: while and after construirAVLDeCategorias runs on the empty tree,  *)
(* every record index i gone through has a node find(libros[i].genre)     *)
(* whose map holds i -> libros[i], and the map of each category key holds *)
(* exactly the indices of the records of that genre; the first record of  *)
(* a category is stored by insert (one node more, its map holding that    *)
(* index alone), a later one by a write to the found node's map (the same *)
(* nodes, one entry more in that map).                                    *)
C22_CategoryIndexBuilt ==
    [][/\ CategoryIndex'
       /\ (main.pc = "categorias" /\ main'.i = main.i + 1) =>
             LET g == ElementAt(libros, main.i).genre
             IN  IF g \in KeysOf(tree)
                 THEN /\ size(tree') = size(tree)
                      /\ KeysOf(tree') = KeysOf(tree)
                      /\ DOMAIN find(tree', g).value
                            = DOMAIN find(tree, g).value \cup {main.i}
                      /\ \A n \in Nodes(tree) :
                            n.key # g => find(tree', n.key).value = n.value
                 ELSE /\ size(tree') = size(tree) + 1
                      /\ tree' = insert(tree, g, main.i :> ElementAt(libros, main.i))
                      /\ DOMAIN find(tree', g).value = {main.i}]_vars

(* The builder is done on three records, two of them of one genre. *)
C22_Witness ==
    /\ main.pc = "menu"
    /\ libros.size_ = MaxBooks
    /\ size(tree) = 2
    /\ \E n \in Nodes(tree) : Cardinality(DOMAIN n.value) >= 2

(* ------------------------------------------------------------------ *)
(* C23: a malformed line                                                *)
(* ------------------------------------------------------------------ *)

(* The line loadDataIntoArray is about to read has a numeric field that  *)
(* is empty or not a number.                                             *)
AtMalformedLine ==
    /\ main.pc = "load"
    /\ main.i < Len(file)
    /\ ~ParseLine(file[main.i + 1]).ok

(* C23: on a line whose id, average_rating or num_page is empty or not a  *)
(* number, loadDataIntoArray reports and does not crash: no parse fault   *)
(* leaves the routine (the program goes on), and the records of the       *)
(* earlier lines stay available.                                          *)
C23_MalformedLineDoesNotCrash ==
    [][AtMalformedLine =>
          /\ main'.pc # "terminated"
          /\ libros'.size_ >= libros.size_
          /\ \A i \in 0..(libros.size_ - 1) :
                ElementAt(libros', i) = ElementAt(libros, i)]_vars

(* ------------------------------------------------------------------ *)
(* C24, C25: the recommendations                                        *)
(* ------------------------------------------------------------------ *)

Loaded == 0..(libros.size_ - 1)

TitlesDistinct ==
    \A i, j \in Loaded : i # j => ElementAt(libros, i).title # ElementAt(libros, j).title

(* The record of a title, where titles are distinct. *)
RecordOf(titulo) ==
    ElementAt(libros, CHOOSE i \in Loaded : ElementAt(libros, i).title = titulo)

(* The similarity score of two titles' records. *)
SimilarityOf(titulo, other) ==
    calculateSimilarity(RecordOf(titulo), RecordOf(other))

(* C24: of two books adjacent to a book in the graph, the one stored     *)
(* with the higher weight is the one more similar to that book (the      *)
(* weight grows with the similarity score).                              *)
C24_HigherWeightMoreSimilar ==
    TitlesDistinct =>
        \A b \in DOMAIN grafo : \A m, n \in 1..Len(grafo[b]) :
            grafo[b][m][2] > grafo[b][n][2] =>
                SimilarityOf(b, grafo[b][m][1]) > SimilarityOf(b, grafo[b][n][1])

(* C25: displayAdjacent prints the neighbours of a title in order of     *)
(* non-increasing similarity to that title.                              *)
C25_ShownRankedBySimilarity ==
    (main.pc = "done" /\ TitlesDistinct /\ shown[3].found) =>
        \A m, n \in 1..Len(shown[3].lines) :
            m < n => SimilarityOf(shown[2], shown[3].lines[m][1])
                        >= SimilarityOf(shown[2], shown[3].lines[n][1])

(* ------------------------------------------------------------------ *)
(* C26: the similarity graph                                            *)
(* ------------------------------------------------------------------ *)

(* How many of author, genre and publication_date two records share. *)
Matches(book1, book2) ==
    Cardinality({f \in {"author", "genre", "publication_date"} : book1[f] = book2[f]})

(* The adjacency list of a title, empty when the graph has none. *)
Adjacent(g, titulo) == IF titulo \in DOMAIN g THEN g[titulo] ELSE <<>>

(* C26: the graph builder, at the pair (i, j) with i < j, adds an edge   *)
(* iff the similarity score (AttributeWeight per matching attribute      *)
(* among author, genre, publication_date) reaches the threshold, that    *)
(* is iff at least two attributes match; the edge is appended to the     *)
(* lists of both titles with the same weight, no other list changes,     *)
(* and neither AVL tree is modified.  When the builder is done on        *)
(* distinct titles, j is in i's list and i in j's, with that weight,     *)
(* exactly for the pairs with two matches or more.                       *)
C26_EdgeIffTwoMatches ==
    [][/\ (main.pc = "grafo" /\ main.j < libros.size_) =>
             LET book1 == ElementAt(libros, main.i)
                 book2 == ElementAt(libros, main.j)
                 similarity == calculateSimilarity(book1, book2)
                 edge == [to \in {book1.title, book2.title} |->
                             <<IF to = book1.title THEN book2.title ELSE book1.title,
                               WholeWeight - similarity>>]
             IN  /\ main.i < main.j
                 /\ similarity = AttributeWeight * Matches(book1, book2)
                 /\ (similarity >= Threshold) <=> (Matches(book1, book2) >= 2)
                 /\ (grafo' # grafo) <=> (Matches(book1, book2) >= 2)
                 /\ Matches(book1, book2) >= 2 =>
                       /\ DOMAIN grafo' = DOMAIN grafo \cup {book1.title, book2.title}
                       /\ \A t \in DOMAIN grafo' :
                             Adjacent(grafo', t) =
                                IF t \notin {book1.title, book2.title}
                                THEN Adjacent(grafo, t)
                                ELSE IF book1.title = book2.title
                                THEN Adjacent(grafo, t) \o <<edge[t], edge[t]>>
                                ELSE Append(Adjacent(grafo, t), edge[t])
                 /\ avl' = avl
                 /\ tree' = tree
       /\ (main'.pc = "done" /\ TitlesDistinct') =>
             \A i, j \in 0..(libros'.size_ - 1) :
                i < j =>
                   LET book1 == ElementAt(libros', i)
                       book2 == ElementAt(libros', j)
                       w == WholeWeight - calculateSimilarity(book1, book2)
                       In(t, other) ==
                           \E n \in 1..Len(Adjacent(grafo', t)) :
                               Adjacent(grafo', t)[n] = <<other, w>>
                       Names(t, other) ==
                           \E n \in 1..Len(Adjacent(grafo', t)) :
                               Adjacent(grafo', t)[n][1] = other
                   IN  /\ In(book1.title, book2.title) <=> (Matches(book1, book2) >= 2)
                       /\ In(book2.title, book1.title) <=> (Matches(book1, book2) >= 2)
                       /\ Names(book1.title, book2.title) <=> In(book1.title, book2.title)
                       /\ Names(book2.title, book1.title) <=> In(book2.title, book1.title)]_vars

(* The builder is done on three records: two of them adjacent with two   *)
(* matches, the third adjacent to neither.                               *)
C26_Witness ==
    /\ main.pc = "done"
    /\ libros.size_ = MaxBooks
    /\ TitlesDistinct
    /\ DOMAIN grafo = {1, 2}
    /\ Matches(ElementAt(libros, 0), ElementAt(libros, 1)) = 2
    /\ Matches(ElementAt(libros, 0), ElementAt(libros, 2)) = 1
    /\ avl # nullptr
    /\ tree # nullptr

(* ------------------------------------------------------------------ *)
(* C27: balance, case by case                                           *)
(* ------------------------------------------------------------------ *)

(* t is n after a single left rotation: n's right child on top, n its    *)
(* left child, the right child's left subtree handed over to n.          *)
IsLeftRotationOf(t, n) ==
    /\ t.key = n.right.key
    /\ t.right = n.right.right
    /\ t.left.key = n.key
    /\ t.left.left = n.left
    /\ t.left.right = n.right.left

IsRightRotationOf(t, n) ==
    /\ t.key = n.left.key
    /\ t.left = n.left.left
    /\ t.right.key = n.key
    /\ t.right.right = n.right
    /\ t.right.left = n.left.right

(* t is n after its right child was rotated right and n then rotated     *)
(* left: the right child's left child on top, between n and the child.   *)
IsRightLeftRotationOf(t, n) ==
    /\ t.key = n.right.left.key
    /\ t.left.key = n.key
    /\ t.left.left = n.left
    /\ t.left.right = n.right.left.left
    /\ t.right.key = n.right.key
    /\ t.right.left = n.right.left.right
    /\ t.right.right = n.right.right

IsLeftRightRotationOf(t, n) ==
    /\ t.key = n.left.right.key
    /\ t.right.key = n.key
    /\ t.right.right = n.right
    /\ t.right.left = n.left.right.right
    /\ t.left.key = n.left.key
    /\ t.left.right = n.left.right.left
    /\ t.left.left = n.left.left

(* height(right) - height(left), on the true heights *)
TrueBf(n) == TrueHeight(n.right) - TrueHeight(n.left)

(* C27: balance(node), bf = height(right) - height(left).  bf = 2: a     *)
(* single left rotation if the right child's bf >= 0, else the right     *)
(* child rotated right and the node rotated left; bf = -2: a single      *)
(* right rotation if the left child's bf <= 0, else the mirrored double  *)
(* rotation; any other bf: the node as it is.  After a rotation the      *)
(* subtree has the same inorder sequence, |bf| <= 1 at its root and at   *)
(* both children, and every cached height is the true height.            *)
C27_BalanceCases ==
    bal.out # nullptr =>
        LET n == bal.in
            t == bal.out
            bf == TrueBf(n)
        IN  /\ bf = 2 /\ TrueBf(n.right) >= 0 => IsLeftRotationOf(t, n)
            /\ bf = 2 /\ TrueBf(n.right) < 0 => IsRightLeftRotationOf(t, n)
            /\ bf = -2 /\ TrueBf(n.left) <= 0 => IsRightRotationOf(t, n)
            /\ bf = -2 /\ TrueBf(n.left) > 0 => IsLeftRightRotationOf(t, n)
            /\ bf \notin {2, -2} => t = n
            /\ bf \in {2, -2} =>
                  /\ t # n
                  /\ inorder_traversal(t) = inorder_traversal(n)
                  /\ \A m \in {t, t.left, t.right} :
                        m # nullptr /\ TrueBf(m) \in -1..1
                  /\ \A m \in Nodes(t) : m.height = TrueHeight(m)

(* balance was called on a node of bf 2 whose right child has bf 0, as   *)
(* erase leaves it: the case the >= decides.                             *)
C27_Witness ==
    /\ bal.out # nullptr
    /\ TrueBf(bal.in) = 2
    /\ TrueBf(bal.in.right) = 0
    /\ bal.in.left # nullptr

(* ------------------------------------------------------------------ *)
(* C28: nodes created and destroyed                                     *)
(* ------------------------------------------------------------------ *)

LiveNodes == {n \in NodeIds : mem.cells[n].live}

(* The number of paths of links from node to target. *)
RECURSIVE PathsTo(_, _, _, _)
PathsTo(cells, node, target, depth) ==
    IF node = 0 \/ depth = 0 THEN 0
    ELSE (IF node = target THEN 1 ELSE 0)
         + PathsTo(cells, cells[node].left, target, depth - 1)
         + PathsTo(cells, cells[node].right, target, depth - 1)

(* The live nodes are size() many, each at the end of exactly one path   *)
(* from root_, and no link of a live node leads to a destroyed one.      *)
StrictTree ==
    /\ Cardinality(LiveNodes) = size(root)
    /\ Cardinality(LiveNodes) = size(Seen)
    /\ \A n \in LiveNodes : PathsTo(mem.cells, mem.rootp, n, MaxCells + 1) = 1
    /\ \A n \in LiveNodes :
          {mem.cells[n].left, mem.cells[n].right} \subseteq LiveNodes \cup {0}
    /\ mem.rootp \in LiveNodes \cup {0}

(* C28: an erase of a present key destroys exactly one node, and that    *)
(* node has one child at most when destroyed; an erase of an absent key  *)
(* and an insert of a present key create and destroy none; an insert of  *)
(* an absent key creates exactly one (a node not in use) and destroys    *)
(* none.  Between calls the live nodes are size() many, each reachable   *)
(* from the root by exactly one path, with no link to a destroyed node.  *)
(* (Stated on the call as it begins, memory still as the call found it,  *)
(* over the events the call is going to make.)                           *)
C28_NodesCreatedAndDestroyed ==
    /\ (run.name # "none" /\ run.pos = 0) =>
          LET log == run.log
              Created == {e \in 1..Len(log) : log[e].field = "new"}
              Deleted == {e \in 1..Len(log) : log[e].field = "delete"}
              Before(e) == IF e = 1 THEN mem.cells ELSE log[e - 1].cells
              present == find(Seen, run.key) # nullptr
          IN  /\ run.name = "insert" =>
                    /\ Cardinality(Created) = (IF present THEN 0 ELSE 1)
                    /\ Deleted = {}
              /\ run.name = "erase" =>
                    /\ Cardinality(Deleted) = (IF present THEN 1 ELSE 0)
                    /\ Created = {}
              /\ \A e \in Created : ~Before(e)[log[e].node].live
              /\ \A e \in Deleted :
                    /\ Before(e)[log[e].node].live
                    /\ Before(e)[log[e].node].left = 0
                          \/ Before(e)[log[e].node].right = 0
    /\ Idle => StrictTree

(* In an erase of a key whose node has two children, the node of the     *)
(* predecessor has just been destroyed.                                  *)
C28_Witness ==
    /\ run.name = "erase"
    /\ run.pos > 0
    /\ run.log[run.pos].field = "delete"
    /\ \E e \in 1..run.pos : run.log[e].field = "key"
    /\ Cardinality(LiveNodes) >= 2

(* ------------------------------------------------------------------ *)
(* C29: findClosest of a present key                                    *)
(* ------------------------------------------------------------------ *)

(* Comparisons that are 0 exactly for equal keys, of three shapes. *)
ZeroOnEqualKinds == CompareKinds \cup {"far"}

(* C29: findClosest(k) on a tree that holds k yields the node whose key  *)
(* is k, the node find(k) yields, whatever the comparison reports for    *)
(* unequal keys as long as it reports 0 for equal keys only: the exact   *)
(* match takes the place of any earlier candidate and ends the descent.  *)
C29_ClosestOfPresentKeyIsExact ==
    /\ \A a, b \in Keys, kind \in ZeroOnEqualKinds :
          (compare(a, b, kind) = 0) <=> (a = b)
    /\ \A k \in KeysOf(root), kind \in ZeroOnEqualKinds :
          /\ findClosest(root, k, kind) # nullptr
          /\ findClosest(root, k, kind).key = k
          /\ findClosest(root, k, kind) = find(root, k)
    /\ (op.name = "findClosest" /\ op.hit) =>
          /\ ret.value # nullptr
          /\ ret.value.key = op.key
          /\ ret.value = find(root, op.key)

(* findClosest of a present key that lies two links below the root: the  *)
(* root and its child were candidates before the exact match.            *)
C29_Witness ==
    /\ op.name = "findClosest"
    /\ op.hit
    /\ ret.value # nullptr
    /\ ret.value # root
    /\ ret.value # root.left
    /\ ret.value # root.right
    /\ findClosest(root, op.key, "far") = ret.value

(* ------------------------------------------------------------------ *)
(* C30: push_back                                                       *)
(* ------------------------------------------------------------------ *)

(* C30: after n push_back calls on an empty DynamicArray, size() = n,    *)
(* size() <= capacity() and element i is the i-th value pushed, for all  *)
(* i < n; a push_back that grows the capacity (to 1 from 0, to the       *)
(* double otherwise, and only when the array is full) leaves the         *)
(* elements stored before where and what they were.                      *)
C30_PushBackKeepsElements ==
    [][/\ arr'.size_ = Len(pushed')
       /\ arr'.size_ <= arr'.capacity_
       /\ arr'.capacity_ = Len(arr'.data_)
       /\ \A i \in 0..(arr'.size_ - 1) : ElementAt(arr', i) = pushed'[i + 1]
       /\ arr'.size_ = arr.size_ + 1
       /\ \A i \in 0..(arr.size_ - 1) : ElementAt(arr', i) = ElementAt(arr, i)
       /\ ElementAt(arr', arr.size_) = pushed'[Len(pushed')]
       /\ arr'.capacity_ =
             IF arr.size_ < arr.capacity_ THEN arr.capacity_
             ELSE IF arr.capacity_ = 0 THEN 1
             ELSE 2 * arr.capacity_]_vars

(* Five values pushed, the fifth after the capacity went from 4 to 8. *)
C30_Witness ==
    /\ Len(pushed) = 5
    /\ arr.size_ = 5
    /\ arr.capacity_ = 8
    /\ pushed[1] # pushed[2]
    /\ ElementAt(arr, 0) # ElementAt(arr, 1)

(* ------------------------------------------------------------------ *)
(* C31, C32, C33: pop_back, insert, resize(newSize, value)              *)
(* ------------------------------------------------------------------ *)

(* The elements of an array, first to last. *)
ElementsOf(a) == [i \in 1..a.size_ |-> a.data_[i]]

(* C31: pop_back removes the last element: on a non-empty array size()   *)
(* is one less afterwards and the elements that remain are unchanged; on *)
(* an empty array nothing changes.                                       *)
(* (Stated of the array pop_back leaves, for every array reached.)        *)
C31_PopBackRemovesLast ==
    "fault" \notin DOMAIN arr =>
        IF arr.size_ > 0
        THEN /\ pop_back(arr).size_ = arr.size_ - 1
             /\ ElementsOf(pop_back(arr))
                   = SubSeq(ElementsOf(arr), 1, arr.size_ - 1)
        ELSE pop_back(arr) = arr

(* C32: insert(index, value) with index <= size() makes size() one       *)
(* larger, puts value at index, leaves the elements before index as they *)
(* were and moves each element from position p >= index to p + 1, the    *)
(* empty array included; with index > size() it throws std::out_of_range *)
(* and leaves the array unchanged.                                       *)
C32_InsertShiftsAndGrows ==
    [][\A index \in 0..(MaxLen + 1), value \in Elements :
          InsertAt(index, value) =>
             IF index <= arr.size_
             THEN /\ "fault" \notin DOMAIN arr'
                  /\ arr'.size_ = arr.size_ + 1
                  /\ ElementsOf(arr') =
                        SubSeq(ElementsOf(arr), 1, index) \o <<value>>
                           \o SubSeq(ElementsOf(arr), index + 1, arr.size_)
             ELSE /\ arr' = arr
                  /\ \A o \in DynamicArray_insert(arr, index, value) :
                        o.thrown = "std::out_of_range"]_vars

(* C33: resize(newSize, value) leaves size() = newSize, the elements     *)
(* below min(old size, newSize) unchanged and every element from the old *)
(* size up to newSize equal to value, with or without a reallocation.    *)
C33_ResizeFillsNewElements ==
    [][\A newSize \in 0..(MaxLen + 1), value \in Elements :
          ResizeValue(newSize, value) =>
             /\ arr'.size_ = newSize
             /\ \A i \in 0..(newSize - 1) :
                   ElementAt(arr', i) = IF i < arr.size_ THEN ElementAt(arr, i)
                                        ELSE value]_vars

(* ------------------------------------------------------------------ *)
(* C34: the balance factors balance meets                               *)
(* ------------------------------------------------------------------ *)

(* The calls of balance a call of insert or erase is going to make. *)
BalanceCalls == {e \in 1..Len(run.log) : run.log[e].fn = "balance"}

(* C34: every balance(node) on the return path of an insert or erase     *)
(* made on a tree that satisfies the AVL invariants reads a balance      *)
(* factor in -2..2, which is the difference of the true heights of the   *)
(* node's subtrees at that moment; 3 or more in magnitude does not       *)
(* occur.  (Stated on the call as it begins, over its events.)           *)
C34_BalanceFactorWithinTwo ==
    (run.name # "none" /\ run.pos = 0) =>
        /\ \A n \in Nodes(Seen) : TrueBf(n) \in -1..1 /\ n.height = TrueHeight(n)
        /\ \A e \in BalanceCalls :
              /\ run.log[e].bf \in -2..2
              /\ run.log[e].bf = TrueBf(TreeOf(run.log[e].cells, run.log[e].node))

(* An erase is beginning on a tree of MaxCells nodes whose return path   *)
(* meets a balance factor of magnitude 2.                                *)
C34_Witness ==
    /\ run.name = "erase"
    /\ run.pos = 0
    /\ Cardinality(Nodes(Seen)) = MaxCells
    /\ \E e \in BalanceCalls : run.log[e].bf \in {2, -2}

(* ------------------------------------------------------------------ *)
(* C35: one rotation per insert                                         *)
(* ------------------------------------------------------------------ *)

(* The nodes insert(key) descends through from node, each given by the   *)
(* subtree it roots: the nodes balance is called on while returning.     *)
RECURSIVE ReturnPath(_, _)
ReturnPath(node, key) ==
    IF node = nullptr THEN {}
    ELSE IF key < node.key THEN {node} \cup ReturnPath(node.left, key)
    ELSE IF key > node.key THEN {node} \cup ReturnPath(node.right, key)
    ELSE {}

(* What insert hands to balance at a node of the return path: the node   *)
(* over its subtree that took the key, its height updated.               *)
HandedToBalance(node, key) ==
    IF key < node.key
    THEN update_height([node EXCEPT !.left = insert(node.left, key, "V1")])
    ELSE update_height([node EXCEPT !.right = insert(node.right, key, "V1")])

(* balance rotates at this node of the return path. *)
RotatesAt(node, key) ==
    calculate_balance_factor(HandedToBalance(node, key)) \in {2, -2}

(* C35: an insert rotates (single or double rotation) at one node of its *)
(* return path at most; the subtree rotated has afterwards the height it *)
(* had before the insert, and every node above it on the path keeps its  *)
(* height and does not rotate; the height of the tree grows by 1 at most *)
(* in an insert and shrinks by 1 at most in an erase.                    *)
C35_OneRotationPerInsert ==
    \A k \in Keys :
        LET path == ReturnPath(root, k)
            rotated == {n \in path : RotatesAt(n, k)}
        IN  /\ Cardinality(rotated) <= 1
            /\ \A n \in rotated :
                  /\ TrueHeight(insert(n, k, "V1")) = TrueHeight(n)
                  /\ insert(n, k, "V1") = balance(HandedToBalance(n, k))
                  /\ insert(n, k, "V1") # HandedToBalance(n, k)
                  /\ \A a \in path :
                        n \in Nodes(a) \ {a} =>
                            /\ TrueHeight(insert(a, k, "V1")) = TrueHeight(a)
                            /\ height(insert(a, k, "V1")) = height(a)
                            /\ ~RotatesAt(a, k)
            /\ TrueHeight(insert(root, k, "V1")) - TrueHeight(root) <= 1
            /\ TrueHeight(root) - TrueHeight(erase(root, k)) <= 1

(* A tree on which some insert rotates below the root, with a double     *)
(* rotation, and some erase makes the tree lower.                        *)
C35_Witness ==
    /\ \E k \in Keys \ KeysOf(root) :
          \E n \in ReturnPath(root, k) :
              /\ RotatesAt(n, k)
              /\ n # root
              /\ insert(n, k, "V1").key = k
    /\ \E k \in KeysOf(root) : TrueHeight(erase(root, k)) = TrueHeight(root) - 1

(* ------------------------------------------------------------------ *)
(* C36: findClosest with a comparison that is the signed difference     *)
(* ------------------------------------------------------------------ *)

(* The nodes of the tree whose key is as near to k as any key is. *)
Nearest(node, k) ==
    {n \in Nodes(node) :
        \A m \in Nodes(node) : abs(k - n.key) <= abs(k - m.key)}

(* C36: with compare(a, b) = a - b, findClosest(k) on a tree that is not *)
(* empty yields a node whose key has the least |k - key| of all the keys *)
(* of the tree; of two nodes equally near it yields the one the descent  *)
(* visits first, the one above the other.                                *)
C36_DifferenceClosestIsNearest ==
    /\ \A a, b \in Keys : compare(a, b, "difference") = a - b
    /\ root # nullptr =>
          \A k \in Keys :
              /\ findClosest(root, k, "difference") \in Nearest(root, k)
              /\ \A n \in Nearest(root, k) :
                    n \in Nodes(findClosest(root, k, "difference"))
    /\ (op.name = "findClosest" /\ op.cmp = "difference" /\ root # nullptr) =>
          /\ ret.value \in Nearest(root, op.key)
          /\ \A n \in Nearest(root, op.key) : n \in Nodes(ret.value)

(* findClosest of an absent key with two keys equally near, both below   *)
(* the root: the answer is the upper of the two and neither the root nor *)
(* the node the descent ended at.                                        *)
C36_Witness ==
    /\ op.name = "findClosest"
    /\ op.cmp = "difference"
    /\ ~op.hit
    /\ Cardinality(Nearest(root, op.key)) = 2
    /\ root \notin Nearest(root, op.key)
    /\ ret.value \in Nearest(root, op.key)
    /\ ret.value # LastVisited(root, op.key)

=============================================================================
